---- MODULE Spec2Model ----
(***************************************************************************)
(* The publication pipeline of ISO_plotlib.py: an ISO_Plots session, its   *)
(* figure counter, appendix label, key table and archive manifest, and the *)
(* operations that change them; a second instance beside it; and the      *)
(* limit functions of ISO23870_3_grapher.py and ISO23870_10_grapher.py     *)
(* that a session plots.                                                   *)
(*                                                                         *)
(* Text is a sequence of one-character strings, so that formatting,        *)
(* upper-casing and prefix tests are computed character by character.      *)
(* An optional value (Python's None or a value) is <<>> or <<value>>.      *)
(***************************************************************************)
EXTENDS Integers, Sequences, FiniteSets, TLC

\* ------------------------------------------------------------------ bounds
\* The number of calls made on a session.
MaxOps == 3
\* The number of calls made on a session whose plots take every combination
\* of annotation arguments.
MaxKeyOps == 2
\* The number of calls made where every limit function is called and
\* plotted, the length of the arrays the functions are called with, and the
\* number of points of a log-spaced sampling plan.
MaxCatOps == 1
MaxArrayLen == 2
DensePoints == 4
\* The number of calls made on a session whose output directory may stop
\* being writable.
MaxSaveOps == 3
\* The calls made on two instances together.
MaxTwoOps == 3

\* ------------------------------------------------------------- optionals
None == <<>>
Some(x) == <<x>>
IsNone(o) == o = <<>>
Val(o) == o[1]

\* ------------------------------------------------------------- characters
\* The printable ASCII characters, code points 32..126, in code order (the grave
\* accent, code 96, is written out: the lexer does not take it in a string).
Ascii ==
  <<" ", "!", "\"", "#", "$", "%", "&", "'", "(", ")", "*", "+", ",", "-",
    ".", "/", "0", "1", "2", "3", "4", "5", "6", "7", "8", "9", ":", ";",
    "<", "=", ">", "?", "@", "A", "B", "C", "D", "E", "F", "G", "H", "I",
    "J", "K", "L", "M", "N", "O", "P", "Q", "R", "S", "T", "U", "V", "W",
    "X", "Y", "Z", "[", "\\", "]", "^", "_", "grave", "a", "b", "c", "d", "e",
    "f", "g", "h", "i", "j", "k", "l", "m", "n", "o", "p", "q", "r", "s",
    "t", "u", "v", "w", "x", "y", "z", "{", "|", "}", "~">>

IsAscii(c) == \E i \in 1..Len(Ascii) : Ascii[i] = c

\* Python's ord and chr on the printable ASCII range.
ord(c) == 31 + (CHOOSE i \in 1..Len(Ascii) : Ascii[i] = c)
chr(n) == Ascii[n - 31]

\* str.upper and str.lower, one character at a time (ASCII: one character
\* maps to one character).
upper_char(c) ==
  IF IsAscii(c) /\ ord(c) >= 97 /\ ord(c) <= 122 THEN chr(ord(c) - 32) ELSE c
lower_char(c) ==
  IF IsAscii(c) /\ ord(c) >= 65 /\ ord(c) <= 90 THEN chr(ord(c) + 32) ELSE c
upper(s) == [i \in 1..Len(s) |-> upper_char(s[i])]
lower(s) == [i \in 1..Len(s) |-> lower_char(s[i])]

Digits09 == {"0", "1", "2", "3", "4", "5", "6", "7", "8", "9"}
Digits19 == Digits09 \ {"0"}
\* The characters the regular expressions' \s matches (ASCII).
Whitespace == {" ", "\t", "\n", "\r", "\f"}

\* ------------------------------------------------------- integer formatting
DigitChar(d) == Ascii[17 + d]

\* str(n) for n >= 0: the decimal digits of n.
RECURSIVE NatStr(_)
NatStr(n) == IF n < 10 THEN <<DigitChar(n)>>
             ELSE NatStr(n \div 10) \o <<DigitChar(n % 10)>>

\* str(n), as used by f"{fig}".
IntStr(n) == IF n < 0 THEN <<"-">> \o NatStr(-n) ELSE NatStr(n)

\* width zeros
RECURSIVE Zeros(_)
Zeros(k) == IF k <= 0 THEN <<>> ELSE <<"0">> \o Zeros(k - 1)

\* f"{n:03}": sign-aware zero padding to a minimum width of 3; the sign
\* counts towards the width, and a longer number is not cut.
Fmt03(n) ==
  IF n < 0 THEN <<"-">> \o Zeros(2 - Len(NatStr(-n))) \o NatStr(-n)
  ELSE Zeros(3 - Len(NatStr(n))) \o NatStr(n)

\* ----------------------------------------------------------- text helpers
S_FIG == <<"F", "I", "G", "-">>
S_Ed1 == <<"_", "(", "E", ")", "_", "E", "d", "1">>
S_KEYS == <<"_", "(", "E", ")", "_", "K", "E", "Y", "S", ".", "t", "x", "t">>
S_FIGURES == <<"F", "I", "G", "U", "R", "E", "S", "-">>
S_zip == <<"_", "(", "E", ")", ".", "z", "i", "p">>
S_fig == <<"f", "i", "g">>
S_Frequency ==
  <<"F", "r", "e", "q", "u", "e", "n", "c", "y", " ", "[", "M", "H", "z", "]">>
S_LIMIT == <<"L", "I", "M", "I", "T">>
S_None == <<"N", "o", "n", "e">>
S_Pass == <<"P", "a", "s", "s">>
S_Fail == <<"F", "a", "i", "l">>
S_Better == <<"B", "e", "t", "t", "e", "r">>
S_ed1 == <<"e", "d", "1">>

\* str(x) of an optional text inside an f-string: None prints as "None".
StrOpt(o) == IF IsNone(o) THEN S_None ELSE Val(o)

\* s with every character old replaced by the text new (str.replace with a
\* one-character pattern).
RECURSIVE Replace(_, _, _)
Replace(s, old, new) ==
  IF s = <<>> THEN <<>>
  ELSE (IF Head(s) = old THEN new ELSE <<Head(s)>>) \o Replace(Tail(s), old, new)

\* The first position at or after i whose character is not in S (Len(s)+1
\* when there is none): a greedy [S]* from i.
SkipSet(s, i, S) ==
  CHOOSE j \in i..(Len(s) + 1) :
    /\ (j = Len(s) + 1 \/ s[j] \notin S)
    /\ \A k \in i..(j - 1) : s[k] \in S

\* ------------------------------------------------------------ the session
VARIABLES
  std_name,        \* self.std_name
  std_num,         \* self.std_num
  std_ed,          \* self.std_ed
  fig_dir,         \* self.fig_dir
  fig_fmt,         \* self.fig_fmt
  filename_style,  \* self.filename_style
  fig_num,         \* self.fig_num: the figure counter
  appendix,        \* self.appendix: None or the appendix label
  key_table,       \* self.key_table: the key-table lines, in order
  zip_file_list,   \* self.zip_file_list: the archive manifest, in order
  saved,           \* the image paths plt.savefig has written
  key_file,        \* the key-table file on disk: None or its text
  zip_archive,     \* the archive on disk: None or its members, in order
  writable,        \* whether files can be written in the output directory
  peer,            \* another ISO_Plots instance: the attributes it holds
  last,            \* the last call: its name, arguments, outcome, and the
                   \* session as it was when the call was made
  calls            \* the log of the calls made, in order: each call's name,
                   \* its number argument, the counter before and after it
                   \* and the appendix label after it

config == <<std_name, std_num, std_ed, fig_dir, fig_fmt, filename_style>>
session == <<fig_num, appendix, key_table, zip_file_list>>
disk == <<saved, key_file, zip_archive>>
\* What no method of the instance assigns.
world == <<writable, peer>>
vars == <<config, session, disk, world, last, calls>>

\* The number of calls made.
nops == Len(calls)

\* FilenamingStyle
ISO_DEFAULT_STYLE == "ISO_DEFAULT_STYLE"
ISO_IMPROVED_STYLE == "ISO_IMPROVED_STYLE"
FilenamingStyle == {ISO_DEFAULT_STYLE, ISO_IMPROVED_STYLE}

\* split_std_number: the match of
\*   ^(?:ISO\s+)?([1-9][0-9]*(?:[-_][1-9][0-9]*)?)\s*((?:ed\s*[1-9][0-9]*)?)$
\* with re.IGNORECASE against std. The pieces of the pattern match disjoint
\* character classes, so the greedy match is the only one; "$" also matches
\* before one trailing newline.
split_std_number(std) ==
  LET n == Len(std)
      At(i) == IF i >= 1 /\ i <= n THEN std[i] ELSE ""
      AtEnd(i) == i = n + 1 \/ (i = n /\ std[n] = "\n")
      hasISO == /\ lower_char(At(1)) = "i"
                /\ lower_char(At(2)) = "s"
                /\ lower_char(At(3)) = "o"
                /\ At(4) \in Whitespace
      p0 == IF hasISO THEN SkipSet(std, 4, Whitespace) ELSE 1
      hasNum == At(p0) \in Digits19
      p1 == SkipSet(std, p0 + 1, Digits09)
      hasPart == At(p1) \in {"-", "_"} /\ At(p1 + 1) \in Digits19
      p2 == IF hasPart THEN SkipSet(std, p1 + 2, Digits09) ELSE p1
      p3 == SkipSet(std, p2, Whitespace)
      e0 == SkipSet(std, p3 + 2, Whitespace)
      hasEd == /\ lower_char(At(p3)) = "e"
               /\ lower_char(At(p3 + 1)) = "d"
               /\ At(e0) \in Digits19
      p4 == IF hasEd THEN SkipSet(std, e0 + 1, Digits09) ELSE p3
      group1 == SubSeq(std, p0, p2 - 1)
      group2 == SubSeq(std, p3, p4 - 1)
      stdnum == Replace(group1, "-", <<"_">>)
      edition == lower(Replace(group2, " ", <<>>))
  IN  IF hasNum /\ AtEnd(p4)
        THEN <<stdnum, IF edition = <<>> THEN S_ed1 ELSE edition>>
        ELSE <<<<>>, <<>>>>

\* ------------------------------------------------------- the inputs drawn
\* Standard names: one the pattern of split_std_number matches with no
\* edition, one it matches with an edition, one it does not match.
StdNames ==
  { <<"I", "S", "O", " ", "9", "9", "9", "9", "-", "1">>,
    <<"4", "0", "9", "1", " ", "E", "d", " ", "2">>,
    <<"D", "r", "a", "f", "t">> }
\* Output directories: with and without the trailing separator.
FigDirs == { <<"D", "\\">>, <<"D">> }
FigFmts == { <<".", "s", "v", "g">> }

\* __init__, the attributes of the instance it constructs, which hold the
\* session and, for the claims, the calls made on it; id tells the
\* instances apart.
Constructed(id) ==
  [id |-> id, fig_num |-> 0, appendix |-> None, key_table |-> <<>>,
   zip_file_list |-> <<>>, last |-> [op |-> "init"], calls |-> <<>>]

\* __init__: the instance, and another one constructed with the same
\* arguments; the output directory can be written to.
Init ==
  /\ std_name \in StdNames
  /\ std_num = split_std_number(std_name)[1]
  /\ std_ed = split_std_number(std_name)[2]
  /\ fig_dir \in FigDirs
  /\ fig_fmt \in FigFmts
  /\ filename_style \in FilenamingStyle
  /\ fig_num = 0
  /\ appendix = None
  /\ key_table = <<>>
  /\ zip_file_list = <<>>
  /\ saved = {}
  /\ key_file = None
  /\ zip_archive = None
  /\ writable = TRUE
  /\ peer = Constructed(2)
  /\ last = [op |-> "init"]
  /\ calls = <<>>

\* The figure counter is the one the other instance holds.
Held_shared ==
  [id |-> 3 - peer.id, fig_num |-> peer.fig_num, appendix |-> appendix,
   key_table |-> key_table, zip_file_list |-> zip_file_list, last |-> last,
   calls |-> calls]

\* The attributes the instance the calls are made on holds.
Held ==
  [id |-> 3 - peer.id, fig_num |-> fig_num, appendix |-> appendix,
   key_table |-> key_table, zip_file_list |-> zip_file_list, last |-> last,
   calls |-> calls]

\* The session as a call finds it.
Pre == [fig_num |-> fig_num, appendix |-> appendix,
        key_table |-> key_table, zip_file_list |-> zip_file_list,
        saved |-> saved, key_file |-> key_file, zip_archive |-> zip_archive]

\* The log with one more call: op its name, arg its number argument.
Logged(op, arg) ==
  Append(calls, [op |-> op, arg |-> arg, before |-> fig_num,
                 after |-> fig_num', app |-> appendix'])

\* ----------------------------------------------------- floating-point values
\* A frequency is a whole number of 0.0001 MHz (189.7367 MHz is 1897367). A
\* value the code computes in floating point is kept as an enclosure
\* <<lo, hi>> of whole millionths that holds it; the enclosures are wide
\* enough to hold the rounding of the float operations too.

RECURSIVE Pow10(_)
Pow10(n) == IF n = 0 THEN 1 ELSE 10 * Pow10(n - 1)

\* a / b rounded up, b > 0.
CeilDiv(a, b) == -((-a) \div b)

\* The number of decimal digits of n > 0.
RECURSIVE NumDigits(_)
NumDigits(n) == IF n < 10 THEN 1 ELSE 1 + NumDigits(n \div 10)

\* x * x / 10^7 rounded down to within 2, for 10^7 <= x < 10^8, the
\* product taken in two halves of x to stay within 32 bits.
SquareDown(x) ==
  LET xh == x \div 10000
      xl == x % 10000
  IN  xh * xh * 10 + (2 * xh * xl) \div 1000 + (xl * xl) \div 10000000

\* One binary digit of the fraction of log10 of a mantissa m, in units of
\* 10^-8: the mantissa, lo <= m * 10^7 <= hi, is squared, and the digit is 1
\* when the square reaches 10. d and u are the weight of the digit rounded
\* down and up, a and b what the digits before it add up to. The digits are
\* done when the weight is used up or the square of lo is below 10 and that
\* of hi is not.
LogDigit(s) ==
  LET l == SquareDown(s.lo)
      h == SquareDown(s.hi) + 2
  IN  IF s.done THEN s
      ELSE IF s.d = 0 \/ (l < 100000000 /\ h >= 100000000)
        THEN [s EXCEPT !.done = TRUE]
      ELSE IF l >= 100000000
        THEN [lo |-> l \div 10, hi |-> CeilDiv(h, 10),
              d |-> s.d \div 2, u |-> CeilDiv(s.u, 2),
              a |-> s.a + s.d, b |-> s.b + s.u, done |-> FALSE]
      ELSE [lo |-> l, hi |-> h, d |-> s.d \div 2, u |-> CeilDiv(s.u, 2),
            a |-> s.a, b |-> s.b, done |-> FALSE]

\* The fraction of log10 of the mantissa, four digits at a time: what the
\* digits add up to, and that with the most the digits left can add.
RECURSIVE LogFraction(_)
LogFraction(s) ==
  IF s.done THEN <<s.a, s.b + 2 * s.u>>
  ELSE LogFraction(LogDigit(LogDigit(LogDigit(LogDigit(s)))))

\* e + frac, for a whole number e and an enclosure frac in units of 10^-8.
Characteristic(e, frac) == <<e * 100000000 + frac[1], e * 100000000 + frac[2]>>

\* n written with eight digits: the mantissa of n, in units of 10^-7.
Mantissa(n) == n * Pow10(8 - NumDigits(n))

\* np.log10 of the whole number n, 0 < n < 10^8: an enclosure in units of
\* 10^-8.
Log10(n) ==
  Characteristic(NumDigits(n) - 1,
                 LogFraction([lo |-> Mantissa(n), hi |-> Mantissa(n),
                              d |-> 50000000, u |-> 50000000,
                              a |-> 0, b |-> 0, done |-> FALSE]))

\* A - B for two enclosures.
Minus(A, B) == <<A[1] - B[2], A[2] - B[1]>>

\* The quotient is taken the other way up.
Log10Ratio_swapped(f, k) == Minus(Log10(k), Log10(f))

\* np.log10(f / k) of two frequencies: an enclosure in units of 10^-8.
Log10Ratio(f, k) == Minus(Log10(f), Log10(k))

\* c * n / 10^7 for c, n >= 0, rounded down to within 4, the product taken
\* in halves to stay within 32 bits.
ProductDown(c, n) ==
  LET ch == c \div 1000
      cl == c % 1000
      nh == n \div 10000
      nl == n % 10000
  IN  ch * nh + (ch * nl) \div 10000 + (cl * nh) \div 1000
      + (cl * nl) \div 10000000

\* The product of a coefficient c, in units of 10^-5, and a number n, in
\* units of 10^-8: an enclosure in millionths.
TimesPoint(c, n) ==
  LET abs(i) == IF i < 0 THEN -i ELSE i
      p == ProductDown(abs(c), abs(n))
  IN  IF (c < 0) = (n < 0) THEN <<p, p + 4>> ELSE <<-(p + 4), -p>>

\* The product of a coefficient c, in units of 10^-5, and an enclosure L in
\* units of 10^-8: an enclosure in millionths.
Times(c, L) ==
  IF c >= 0 THEN <<TimesPoint(c, L[1])[1], TimesPoint(c, L[2])[2]>>
  ELSE <<TimesPoint(c, L[2])[1], TimesPoint(c, L[1])[2]>>

\* The whole part of the square root of n >= 0, found between lo and hi by
\* sixteenths of the range.
RECURSIVE RootBetween(_, _, _)
RootBetween(n, lo, hi) ==
  LET step == CeilDiv(hi - lo, 16)
      below(r) == r <= hi /\ r * r <= n
      top(r) == IF r + step - 1 < hi THEN r + step - 1 ELSE hi
      from == CHOOSE r \in {lo + i * step : i \in 0..16} :
                below(r) /\ ~below(r + step)
  IN  IF lo = hi THEN lo ELSE RootBetween(n, from, top(from))

\* np.sqrt(f) of a frequency f: an enclosure in thousandths.
Sqrt(f) ==
  LET r == RootBetween(f * 100, 0, 46340)
  IN  <<r, r + 1>>

\* The largest frequency between lo and hi whose logarithm, in units of
\* 10^-8, is at most t; the logarithm of lo is. The search goes down by
\* sixteenths of the range.
RECURSIVE Exp10(_, _, _)
Exp10(t, lo, hi) ==
  LET step == CeilDiv(hi - lo, 16)
      below(f) == f <= hi /\ Log10(f)[1] <= t
      top(f) == IF f + step - 1 < hi THEN f + step - 1 ELSE hi
      from == CHOOSE f \in {lo + i * step : i \in 0..16} :
                below(f) /\ ~below(f + step)
  IN  IF lo = hi THEN lo ELSE Exp10(t, from, top(from))

\* np.logspace(np.log10(a), np.log10(b), n): n frequencies from a to b at
\* equal steps of the logarithm. The first is a; the last, which the floats
\* put within 4e-13 of b, is b.
LogSpace(a, b, n) ==
  LET la == Log10(a)[1]
      lb == Log10(b)[1]
  IN  <<a>>
      \o [i \in 1..(n - 2) |-> Exp10(la + ((lb - la) * i) \div (n - 1), a, b)]
      \o <<b>>

\* ------------------------------------------------------ the limit functions
\* What a limit function returns for one frequency: None, a float (its
\* enclosure), or a tuple of floats; nan is what a float array holds where
\* None was stored.
PyNone == [kind |-> "None", v |-> <<>>]
NaN == [kind |-> "nan", v |-> <<>>]
Float(lo, hi) == [kind |-> "float", v |-> <<lo, hi>>]

\* a + t + u for a number a and two enclosures.
Sum(a, t, u) == Float(a + t[1] + u[1], a + t[2] + u[2])

\* The expression of one branch of a limit function at frequency f. c holds
\* the constants of the expression, a value in millionths, a coefficient of
\* a logarithm in units of 10^-5, a coefficient of f or of its square root
\* in units of 10^-4:
\*   const   c[1]
\*   log     c[1] + c[2] * np.log10(f / c[3])
\*   loglin  c[1] + c[2] * np.log10(f) + c[4] * (f - c[5]) / c[6]
\*   il      (c[1] * f + c[2] * np.sqrt(f) + c[3] / np.sqrt(f)) / c[4]
\*   none    None
\*   tuple   (c[1], c[2])
Eval(form, c, f) ==
  CASE form = "const" -> Float(c[1], c[1])
    [] form = "log" -> Sum(c[1], Times(c[2], Log10Ratio(f, c[3])), <<0, 0>>)
    [] form = "loglin" ->
         LET q == ((f - c[5]) * 100) \div c[6]
             lin == IF c[4] >= 0 THEN <<c[4] * q, c[4] * (q + 1)>>
                    ELSE <<c[4] * (q + 1), c[4] * q>>
         IN  Sum(c[1], Times(c[2], Log10Ratio(f, c[3])), lin)
    [] form = "il" ->
         LET s == Sqrt(f)
             pf == (c[1] * f) \div 100
             qs == <<(c[2] * s[1]) \div 10, CeilDiv(c[2] * s[2], 10)>>
             rs == <<(c[3] * 100000) \div s[2], CeilDiv(c[3] * 100000, s[1])>>
         IN  Float((pf + qs[1] + rs[1]) \div c[4],
                   CeilDiv(pf + 1 + qs[2] + rs[2], c[4]))
    [] form = "none" -> PyNone
    [] form = "tuple" -> [kind |-> "tuple", v |-> c]

ILmax_conn ==
  [name |-> "ILmax_conn", alias |-> "",
   plan |-> LogSpace(10000, 6000000, DensePoints),
   domain |-> <<10000, 6000000>>,
   segs |-> <<[test |-> "else", bound |-> 0, form |-> "il", c |-> <<0, 100, 0, 1>>]>>]

RLmax_conn ==
  [name |-> "RLmax_conn", alias |-> "",
   plan |-> <<10000, 1897367, 6000000>>,
   domain |-> <<10000, 6000000>>,
   segs |-> <<[test |-> "le", bound |-> 1897367, form |-> "const", c |-> <<30000000>>],
              [test |-> "else", bound |-> 0, form |-> "log", c |-> <<20000000, -2000000, 6000000>>]>>]

LCLmax_conn ==
  [name |-> "LCLmax_conn", alias |-> "",
   plan |-> <<100000, 500000, 6000000>>,
   domain |-> <<100000, 6000000>>,
   segs |-> <<[test |-> "le", bound |-> 500000, form |-> "const", c |-> <<50000000>>],
              [test |-> "else", bound |-> 0, form |-> "log", c |-> <<75189000, -1482610, 10000>>]>>]

LCTLmax_conn ==
  [name |-> "LCTLmax_conn", alias |-> "LCLmax_conn",
   plan |-> <<>>,
   domain |-> <<>>,
   segs |-> <<>>]

PSANEXT_conn_ES ==
  [name |-> "PSANEXT_conn_ES", alias |-> "",
   plan |-> <<10000, 1000000, 6000000>>,
   domain |-> <<10000, 6000000>>,
   segs |-> <<[test |-> "le", bound |-> 1000000, form |-> "log", c |-> <<77000000, -1000000, 10000>>],
              [test |-> "else", bound |-> 0, form |-> "loglin", c |-> <<87000000, -1500000, 10000, -6, 1000000, 400>>]>>]

PSAFEXT_conn_ES ==
  [name |-> "PSAFEXT_conn_ES", alias |-> "",
   plan |-> <<10000, 6000000>>,
   domain |-> <<10000, 6000000>>,
   segs |-> <<[test |-> "else", bound |-> 0, form |-> "log", c |-> <<86670000, -2000000, 10000>>]>>]

Atten_c_class1_conn_ES ==
  [name |-> "Atten_c_class1_conn_ES", alias |-> "",
   plan |-> <<300000, 1000000, 6000000>>,
   domain |-> <<300000, 6000000>>,
   segs |-> <<[test |-> "le", bound |-> 1000000, form |-> "const", c |-> <<70000000>>],
              [test |-> "else", bound |-> 0, form |-> "log", c |-> <<108552900, -1927650, 10000>>]>>]

Atten_c_class2_conn_ES ==
  [name |-> "Atten_c_class2_conn_ES", alias |-> "",
   plan |-> <<300000, 6000000>>,
   domain |-> <<300000, 6000000>>,
   segs |-> <<[test |-> "else", bound |-> 0, form |-> "const", c |-> <<70000000>>]>>]

Atten_s_class1_conn_ES ==
  [name |-> "Atten_s_class1_conn_ES", alias |-> "",
   plan |-> <<300000, 6000000>>,
   domain |-> <<300000, 6000000>>,
   segs |-> <<[test |-> "else", bound |-> 0, form |-> "const", c |-> <<28000000>>]>>]

Atten_s_class2_conn_ES ==
  [name |-> "Atten_s_class2_conn_ES", alias |-> "",
   plan |-> <<300000, 6000000>>,
   domain |-> <<300000, 6000000>>,
   segs |-> <<[test |-> "else", bound |-> 0, form |-> "const", c |-> <<45000000>>]>>]

ILmax_cable ==
  [name |-> "ILmax_cable", alias |-> "",
   plan |-> LogSpace(10000, 6000000, DensePoints),
   domain |-> <<10000, 6000000>>,
   segs |-> <<[test |-> "else", bound |-> 0, form |-> "il", c |-> <<23, 5307, 639, 15>>]>>]

RLmax_cable ==
  [name |-> "RLmax_cable", alias |-> "",
   plan |-> <<10000, 100000, 400000, 1300000, 4000000, 6000000>>,
   domain |-> <<10000, 6000000>>,
   segs |-> <<[test |-> "lt", bound |-> 100000, form |-> "const", c |-> <<22000000>>],
              [test |-> "lt", bound |-> 400000, form |-> "log", c |-> <<26982900, -498290, 10000>>],
              [test |-> "le", bound |-> 1300000, form |-> "const", c |-> <<19000000>>],
              [test |-> "lt", bound |-> 4000000, form |-> "log", c |-> <<40654080, -1024345, 10000>>],
              [test |-> "else", bound |-> 0, form |-> "const", c |-> <<14000000>>]>>]

LCLmax_cable ==
  [name |-> "LCLmax_cable", alias |-> "",
   plan |-> <<100000, 500000, 6000000>>,
   domain |-> <<100000, 6000000>>,
   segs |-> <<[test |-> "le", bound |-> 500000, form |-> "const", c |-> <<50000000>>],
              [test |-> "else", bound |-> 0, form |-> "log", c |-> <<81486300, -1853260, 10000>>]>>]

LCTLmax_cable ==
  [name |-> "LCTLmax_cable", alias |-> "",
   plan |-> <<100000, 500000, 6000000>>,
   domain |-> <<100000, 6000000>>,
   segs |-> <<[test |-> "le", bound |-> 500000, form |-> "const", c |-> <<46000000>>],
              [test |-> "else", bound |-> 0, form |-> "log", c |-> <<71189000, -1482610, 10000>>]>>]

Atten_c_class1_cable_ES ==
  [name |-> "Atten_c_class1_cable_ES", alias |-> "",
   plan |-> <<300000, 6000000>>,
   domain |-> <<300000, 6000000>>,
   segs |-> <<[test |-> "else", bound |-> 0, form |-> "const", c |-> <<70000000>>]>>]

Atten_c_class2_cable_ES ==
  [name |-> "Atten_c_class2_cable_ES", alias |-> "Atten_c_class1_cable_ES",
   plan |-> <<>>,
   domain |-> <<>>,
   segs |-> <<>>]

Atten_s_class1_cable_ES ==
  [name |-> "Atten_s_class1_cable_ES", alias |-> "",
   plan |-> <<300000, 6000000>>,
   domain |-> <<300000, 6000000>>,
   segs |-> <<[test |-> "else", bound |-> 0, form |-> "const", c |-> <<35000000>>]>>]

Atten_s_class2_cable_ES ==
  [name |-> "Atten_s_class2_cable_ES", alias |-> "",
   plan |-> <<300000, 6000000>>,
   domain |-> <<300000, 6000000>>,
   segs |-> <<[test |-> "else", bound |-> 0, form |-> "const", c |-> <<45000000>>]>>]

ILmax_cable_assy ==
  [name |-> "ILmax_cable_assy", alias |-> "",
   plan |-> <<10000, 6000000>>,
   domain |-> <<>>,
   segs |-> <<[test |-> "else", bound |-> 0, form |-> "none", c |-> <<>>]>>]

RLmax_cable_assy ==
  [name |-> "RLmax_cable_assy", alias |-> "",
   plan |-> <<10000, 1300000, 4000000, 6000000>>,
   domain |-> <<10000, 6000000>>,
   segs |-> <<[test |-> "le", bound |-> 1300000, form |-> "const", c |-> <<22000000>>],
              [test |-> "lt", bound |-> 4000000, form |-> "log", c |-> <<56646500, -1638950, 10000>>],
              [test |-> "else", bound |-> 0, form |-> "const", c |-> <<14000000>>]>>]

LCLmax_cable_assy ==
  [name |-> "LCLmax_cable_assy", alias |-> "",
   plan |-> <<100000, 500000, 6000000>>,
   domain |-> <<100000, 6000000>>,
   segs |-> <<[test |-> "le", bound |-> 500000, form |-> "const", c |-> <<41000000>>],
              [test |-> "else", bound |-> 0, form |-> "log", c |-> <<66189000, -1482610, 10000>>]>>]

LCTLmax_cable_assy ==
  [name |-> "LCTLmax_cable_assy", alias |-> "LCLmax_cable_assy",
   plan |-> <<>>,
   domain |-> <<>>,
   segs |-> <<>>]

Atten_c_class1_cable_assy_ES ==
  [name |-> "Atten_c_class1_cable_assy_ES", alias |-> "",
   plan |-> <<300000, 1000000, 6000000>>,
   domain |-> <<300000, 6000000>>,
   segs |-> <<[test |-> "le", bound |-> 1000000, form |-> "const", c |-> <<70000000>>],
              [test |-> "le", bound |-> 4000000, form |-> "log", c |-> <<99897400, -1494870, 10000>>],
              [test |-> "else", bound |-> 0, form |-> "log", c |-> <<75776800, -567890, 10000>>]>>]

Atten_c_class2_cable_assy_ES ==
  [name |-> "Atten_c_class2_cable_assy_ES", alias |-> "",
   plan |-> <<300000, 6000000>>,
   domain |-> <<300000, 6000000>>,
   segs |-> <<[test |-> "else", bound |-> 0, form |-> "const", c |-> <<70000000>>]>>]

Atten_s_class1_cable_assy_ES ==
  [name |-> "Atten_s_class1_cable_assy_ES", alias |-> "",
   plan |-> <<300000, 6000000>>,
   domain |-> <<300000, 6000000>>,
   segs |-> <<[test |-> "else", bound |-> 0, form |-> "const", c |-> <<28000000>>]>>]

Atten_s_class2_cable_assy_ES ==
  [name |-> "Atten_s_class2_cable_assy_ES", alias |-> "",
   plan |-> <<300000, 6000000>>,
   domain |-> <<300000, 6000000>>,
   segs |-> <<[test |-> "else", bound |-> 0, form |-> "const", c |-> <<45000000>>]>>]

ILmax_WCC_LSTB ==
  [name |-> "ILmax_WCC_LSTB", alias |-> "",
   plan |-> LogSpace(10000, 6000000, DensePoints),
   domain |-> <<10000, 6000000>>,
   segs |-> <<[test |-> "else", bound |-> 0, form |-> "il", c |-> <<40, 8111, 1100, 1>>]>>]

ILmax_WCC_LSTA ==
  [name |-> "ILmax_WCC_LSTA", alias |-> "",
   plan |-> LogSpace(10000, 6000000, DensePoints),
   domain |-> <<10000, 6000000>>,
   segs |-> <<[test |-> "else", bound |-> 0, form |-> "il", c |-> <<23, 5907, 639, 1>>]>>]

RLmax_WCC ==
  [name |-> "RLmax_WCC", alias |-> "",
   plan |-> <<10000, 100000, 400000, 1300000, 4000000, 6000000>>,
   domain |-> <<10000, 6000000>>,
   segs |-> <<[test |-> "lt", bound |-> 100000, form |-> "const", c |-> <<19000000>>],
              [test |-> "lt", bound |-> 400000, form |-> "log", c |-> <<23982900, -498290, 10000>>],
              [test |-> "le", bound |-> 1300000, form |-> "const", c |-> <<16000000>>],
              [test |-> "lt", bound |-> 4000000, form |-> "log", c |-> <<37654080, -1024345, 10000>>],
              [test |-> "else", bound |-> 0, form |-> "const", c |-> <<11000000>>]>>]

LCLmax_WCC ==
  [name |-> "LCLmax_WCC", alias |-> "",
   plan |-> <<100000, 500000, 6000000>>,
   domain |-> <<100000, 6000000>>,
   segs |-> <<[test |-> "le", bound |-> 500000, form |-> "const", c |-> <<41000000>>],
              [test |-> "else", bound |-> 0, form |-> "log", c |-> <<66189000, -1482610, 10000>>]>>]

LCTLmax_WCC ==
  [name |-> "LCTLmax_WCC", alias |-> "LCLmax_WCC",
   plan |-> <<>>,
   domain |-> <<>>,
   segs |-> <<>>]

PSANEXT_WCC_ES ==
  [name |-> "PSANEXT_WCC_ES", alias |-> "",
   plan |-> <<10000>> \o LogSpace(1000000, 6000000, DensePoints),
   domain |-> <<10000, 6000000>>,
   segs |-> <<[test |-> "le", bound |-> 1000000, form |-> "log", c |-> <<74000000, -1000000, 10000>>],
              [test |-> "else", bound |-> 0, form |-> "loglin", c |-> <<84000000, -1500000, 10000, -6, 1000000, 400>>]>>]

PSAACRF_WCC_ES ==
  [name |-> "PSAACRF_WCC_ES", alias |-> "",
   plan |-> <<10000, 6000000>>,
   domain |-> <<10000, 6000000>>,
   segs |-> <<[test |-> "else", bound |-> 0, form |-> "log", c |-> <<43670000, -2000000, 1000000>>]>>]

Atten_c_class1_WCC_ES ==
  [name |-> "Atten_c_class1_WCC_ES", alias |-> "",
   plan |-> <<300000, 1000000, 6000000>>,
   domain |-> <<300000, 6000000>>,
   segs |-> <<[test |-> "le", bound |-> 1000000, form |-> "const", c |-> <<65000000>>],
              [test |-> "else", bound |-> 0, form |-> "log", c |-> <<103552900, -1927650, 10000>>]>>]

Atten_c_class2_WCC_ES ==
  [name |-> "Atten_c_class2_WCC_ES", alias |-> "",
   plan |-> <<300000, 6000000>>,
   domain |-> <<300000, 6000000>>,
   segs |-> <<[test |-> "else", bound |-> 0, form |-> "const", c |-> <<65000000>>]>>]

Atten_s_class1_WCC_ES ==
  [name |-> "Atten_s_class1_WCC_ES", alias |-> "",
   plan |-> <<300000, 6000000>>,
   domain |-> <<300000, 6000000>>,
   segs |-> <<[test |-> "else", bound |-> 0, form |-> "const", c |-> <<25000000>>]>>]

Atten_s_class2_WCC_ES ==
  [name |-> "Atten_s_class2_WCC_ES", alias |-> "",
   plan |-> <<300000, 6000000>>,
   domain |-> <<300000, 6000000>>,
   segs |-> <<[test |-> "else", bound |-> 0, form |-> "const", c |-> <<40000000>>]>>]

Zshield_max_ECU ==
  [name |-> "Zshield_max_ECU", alias |-> "",
   plan |-> <<10000, 600000, 6000000>>,
   domain |-> <<10000, 6000000>>,
   segs |-> <<[test |-> "le", bound |-> 600000, form |-> "const", c |-> <<10000000>>],
              [test |-> "else", bound |-> 0, form |-> "log", c |-> <<10000000, 6000000, 600000>>]>>]

Zshield_max_ECU_DC ==
  [name |-> "Zshield_max_ECU_DC", alias |-> "",
   plan |-> <<-1000, 1000>>,
   domain |-> <<>>,
   segs |-> <<[test |-> "else", bound |-> 0, form |-> "tuple", c |-> <<10000000, 1000000000>>]>>]

\* PSANEXT_WCC_ES as ISO23870_10_grapher.py defines it: sampled at its
\* corner frequencies.
PSANEXT_WCC_ES_10 ==
  [name |-> "ISO23870_10_grapher.PSANEXT_WCC_ES", alias |-> "",
   plan |-> <<10000, 1000000, 6000000>>,
   domain |-> PSANEXT_WCC_ES.domain,
   segs |-> PSANEXT_WCC_ES.segs]

\* The limit functions of the catalogue, in the order
\* ISO23870_3_grapher.py defines them, and the one that
\* ISO23870_10_grapher.py defines differently.
Catalogue ==
  << ILmax_conn, RLmax_conn, LCLmax_conn, LCTLmax_conn, PSANEXT_conn_ES,
     PSAFEXT_conn_ES, Atten_c_class1_conn_ES, Atten_c_class2_conn_ES,
     Atten_s_class1_conn_ES, Atten_s_class2_conn_ES, ILmax_cable,
     RLmax_cable, LCLmax_cable, LCTLmax_cable, Atten_c_class1_cable_ES,
     Atten_c_class2_cable_ES, Atten_s_class1_cable_ES,
     Atten_s_class2_cable_ES, ILmax_cable_assy, RLmax_cable_assy,
     LCLmax_cable_assy, LCTLmax_cable_assy, Atten_c_class1_cable_assy_ES,
     Atten_c_class2_cable_assy_ES, Atten_s_class1_cable_assy_ES,
     Atten_s_class2_cable_assy_ES, ILmax_WCC_LSTB, ILmax_WCC_LSTA, RLmax_WCC,
     LCLmax_WCC, LCTLmax_WCC, PSANEXT_WCC_ES, PSAACRF_WCC_ES,
     Atten_c_class1_WCC_ES, Atten_c_class2_WCC_ES, Atten_s_class1_WCC_ES,
     Atten_s_class2_WCC_ES, Zshield_max_ECU, Zshield_max_ECU_DC,
     PSANEXT_WCC_ES_10 >>

\* The function that a name called in the body of another is bound to.
Function(name) ==
  CASE name = "LCLmax_conn" -> LCLmax_conn
    [] name = "Atten_c_class1_cable_ES" -> Atten_c_class1_cable_ES
    [] name = "LCLmax_cable_assy" -> LCLmax_cable_assy
    [] name = "LCLmax_WCC" -> LCLmax_WCC

\* The test of one elif of the scalar branch.
Passes(seg, f) ==
  \/ seg.test = "else"
  \/ seg.test = "lt" /\ f < seg.bound
  \/ seg.test = "le" /\ f <= seg.bound

\* The last branch whose test passes is reached.
Segment_last(F, f) ==
  CHOOSE i \in 1..Len(F.segs) :
    /\ Passes(F.segs[i], f)
    /\ \A j \in (i + 1)..Len(F.segs) : ~Passes(F.segs[j], f)

\* The branch of F that a scalar frequency f inside the domain reaches: the
\* first one whose test passes.
Segment(F, f) ==
  CHOOSE i \in 1..Len(F.segs) :
    /\ Passes(F.segs[i], f)
    /\ \A j \in 1..(i - 1) : ~Passes(F.segs[j], f)

\* The domain test of the scalar branch: f < f_min or f > f_max.
OutOfDomain(F, f) ==
  F.domain # <<>> /\ (f < F.domain[1] \/ f > F.domain[2])

\* F(f) for a scalar frequency f.
Branch(seg, f) == Eval(seg.form, seg.c, f)

Scalar(F, f) ==
  IF OutOfDomain(F, f) THEN PyNone ELSE Branch(F.segs[Segment(F, f)], f)

\* The default sampling plan of F: the frequencies the f is None branch
\* builds.
Plan(F) == F.plan

\* y[i] = v: what an array of the given dtype holds after v is stored in
\* it; a float array turns None into nan.
Store(dtype, v) ==
  IF dtype = "float64" /\ v.kind = "None" THEN NaN ELSE v

\* The arguments of a call: None, a float or an ndarray of frequencies; x
\* holds the frequencies. Any other conv stands for an argument of another
\* type.
ArgNone == [conv |-> "None", x |-> <<>>]
ArgFloat(f) == [conv |-> "float", x |-> <<f>>]
ArgArray(fs) == [conv |-> "ndarray", x |-> fs]

\* What a call gives: whether it raised, the value y it returned if it did
\* not, and the frequencies f returned with it by a call with None.
Raised == [raised |-> TRUE, y |-> PyNone, f |-> <<>>]
Returned(y, f) == [raised |-> FALSE, y |-> y, f |-> f]

\* The array feval returns for the values v of fun: np.empty takes its dtype
\* from the first of them, and a float array does not take a tuple.
Filled(v) ==
  LET dtype == IF v[1].kind = "float" THEN "float64" ELSE "object"
  IN  IF \E i \in 1..Len(v) : dtype = "float64" /\ v[i].kind = "tuple"
        THEN Raised
        ELSE Returned([kind |-> "ndarray", dtype |-> dtype,
                       v |-> [i \in 1..Len(v) |-> Store(dtype, v[i])]],
                      <<>>)

\* A None is returned for an x of another type.
feval_default(x, fun) ==
  IF x.conv = "float" THEN Returned(Scalar(fun, x.x[1]), <<>>)
  ELSE IF x.conv = "ndarray" THEN
    IF Len(x.x) = 0 THEN Raised
    ELSE Filled([i \in 1..Len(x.x) |-> Scalar(fun, x.x[i])])
  ELSE Returned(PyNone, <<>>)

\* The number of times feval(x, fun) calls fun.
Evaluations(x) ==
  IF x.conv = "float" THEN 1 ELSE IF x.conv = "ndarray" THEN Len(x.x) ELSE 0

\* feval(x, fun). np.nditer raises on an array of no elements.
feval(x, fun) ==
  IF x.conv = "float" THEN Returned(Scalar(fun, x.x[1]), <<>>)
  ELSE IF x.conv = "ndarray" THEN
    IF Len(x.x) = 0 THEN Raised
    ELSE Filled([i \in 1..Len(x.x) |-> Scalar(fun, x.x[i])])
  ELSE Raised

\* The alias has its own body, with a constant of its own.
Target_own(F) ==
  LET T == Function(F.alias)
      own(seg) == IF seg.form = "const"
                    THEN [seg EXCEPT !.c = <<seg.c[1] + 1000000>>]
                    ELSE seg
  IN  IF F.alias = "" THEN F
      ELSE [T EXCEPT !.segs = [i \in 1..Len(T.segs) |-> own(T.segs[i])]]

\* The function whose body a call of F runs: an alias returns what the
\* function it names returns.
Target(F) == IF F.alias = "" THEN F ELSE Function(F.alias)

\* return feval(f, F), f: the samples with the frequencies of the plan.
WithPlan(r, plan) == IF r.raised THEN Raised ELSE Returned(r.y, plan)

\* The body of T for the three ways f is given: None, an ndarray, a scalar.
Body(T, arg) ==
  IF arg.conv = "None" THEN WithPlan(feval(ArgArray(Plan(T)), T), Plan(T))
  ELSE IF arg.conv = "ndarray" THEN feval(arg, T)
  ELSE Returned(Scalar(T, arg.x[1]), <<>>)

\* F(f).
Call(F, arg) == Body(Target(F), arg)

\* ------------------------------------------------------ figure numbering
\* A counter that is not advanced.
next_figure_stuck(n) == n

\* __next_figure: the new counter, which is also what it returns.
next_figure(n) == n + 1

\* A skip that always advances by one.
skip_figure_one(n, skip) == n + 1

\* ISO_Skip_Figure: the new counter, which is also what it returns.
skip_figure(n, skip) == n + skip

ISO_Skip_Figure(skip) ==
  /\ fig_num' = skip_figure(fig_num, skip)
  /\ last' = [op |-> "Skip", skip |-> skip, raised |-> FALSE,
              ret |-> skip_figure(fig_num, skip), pre |-> Pre]
  /\ UNCHANGED <<config, appendix, key_table, zip_file_list, disk, world>>
  /\ calls' = Logged("Skip", skip)

\* ---------------------------------------------------------- external files
\* The file is put in front of the manifest.
AddFileToZip_front(list, filename) ==
  IF IsNone(filename) THEN list ELSE <<Val(filename)>> \o list

\* __AddFileToZip: the manifest with filename appended, unless it is None.
AddFileToZip(list, filename) ==
  IF IsNone(filename) THEN list ELSE Append(list, Val(filename))

ISO_Add_External_File(filename, skip) ==
  /\ zip_file_list' = AddFileToZip(zip_file_list, filename)
  /\ fig_num' = skip_figure(fig_num, skip)
  /\ last' = [op |-> "AddExternal", filename |-> filename, skip |-> skip,
              raised |-> FALSE, pre |-> Pre]
  /\ UNCHANGED <<config, appendix, key_table, disk, world>>
  /\ calls' = Logged("AddExternal", skip)

\* --------------------------------------------------------------- appendices
\* Every automatic label is "A".
start_appendix_first(cur, arg) ==
  IF IsNone(arg) THEN Some("A") ELSE Some(upper(Val(arg))[1])

\* The label is not upper-cased.
start_appendix_as_given(cur, arg) ==
  IF IsNone(arg)
    THEN IF IsNone(cur) THEN Some("A") ELSE Some(chr(ord(Val(cur)) + 1))
    ELSE Some(Val(arg)[1])

\* ISO_Start_Appendix, the label it assigns: cur is self.appendix, arg the
\* appendix argument.
start_appendix(cur, arg) ==
  IF IsNone(arg)
    THEN IF IsNone(cur) THEN Some("A") ELSE Some(chr(ord(Val(cur)) + 1))
    ELSE Some(upper(Val(arg))[1])

\* An empty label has no first character: appendix.upper()[0] raises
\* IndexError before anything is assigned.
StartAppendixRaises(arg) == ~IsNone(arg) /\ Val(arg) = <<>>

ISO_Start_Appendix(arg) ==
  LET raised == StartAppendixRaises(arg)
  IN  /\ appendix' = IF raised THEN appendix ELSE start_appendix(appendix, arg)
      /\ fig_num' = IF raised THEN fig_num ELSE 0
      /\ last' = [op |-> "StartAppendix", arg |-> arg, raised |-> raised,
                  pre |-> Pre]
      /\ calls' = Logged(IF raised THEN "StartAppendixRaised"
                         ELSE IF IsNone(arg) THEN "StartAppendix"
                         ELSE "StartAppendixLabel", 0)
      /\ UNCHANGED <<config, key_table, zip_file_list, disk, world>>

\* ---------------------------------------------------------------- key table
\* The appendix is left out of the identifier.
FigId_plain(app, fig) == S_FIG \o Fmt03(fig)

\* The figure identifier both the key table and the improved file names use.
FigId(app, fig) ==
  S_FIG \o (IF IsNone(app) THEN <<>> ELSE <<Val(app), ".">>) \o Fmt03(fig)

\* The table is started anew with the record's line.
AddKeyToFigure_anew(table, app, fig, key, value) ==
  <<FigId(app, fig) \o <<"\t">> \o key \o <<"\t">> \o value \o <<"\n">>>>

\* __AddKeyToFigure: the table with the record's line appended.
AddKeyToFigure(table, app, fig, key, value) ==
  Append(table, FigId(app, fig) \o <<"\t">> \o key \o <<"\t">> \o value \o <<"\n">>)

\* f"({key_num})"
KeyCode(k) == <<"(">> \o IntStr(k) \o <<")">>

\* The records ISO_Plot appends for figure fig, given the Y value and the
\* annotation keys (each None or a number).
PlotRecords(table, app, fig, vunit, key_pass, key_fail, key_better) ==
  LET t1 == AddKeyToFigure(table, app, fig, <<"X">>, S_Frequency)
      t2 == AddKeyToFigure(t1, app, fig, <<"Y">>, vunit)
      t3 == IF IsNone(key_pass) THEN t2
            ELSE AddKeyToFigure(t2, app, fig, KeyCode(Val(key_pass)), S_Pass)
      t4 == IF IsNone(key_fail) THEN t3
            ELSE AddKeyToFigure(t3, app, fig, KeyCode(Val(key_fail)), S_Fail)
      t5 == IF IsNone(key_better) THEN t4
            ELSE AddKeyToFigure(t4, app, fig, KeyCode(Val(key_better)), S_Better)
  IN  t5

\* ----------------------------------------------------------------- file names
\* The caption is left out of the file name.
FigFilename_nocaption(app, fig, figname) ==
  IF filename_style = ISO_IMPROVED_STYLE
    THEN fig_dir \o FigId(app, fig) \o <<"_">> \o std_name \o S_Ed1 \o fig_fmt
    ELSE fig_dir \o std_num \o std_ed \o S_fig
         \o (IF IsNone(app) THEN <<>> ELSE <<"_", Val(app), "_">>)
         \o IntStr(fig) \o fig_fmt

\* The file name carries no figure identifier.
FigFilename_unnumbered(app, fig, figname) ==
  fig_dir \o std_name \o S_Ed1 \o fig_fmt

\* __FigFilename
FigFilename(app, fig, figname) ==
  IF filename_style = ISO_IMPROVED_STYLE
    THEN fig_dir \o FigId(app, fig) \o <<"_">> \o std_name \o S_Ed1
         \o (IF IsNone(figname) THEN <<>> ELSE <<" ">> \o Val(figname))
         \o fig_fmt
    ELSE fig_dir \o std_num \o std_ed \o S_fig
         \o (IF IsNone(app) THEN <<>> ELSE <<"_", Val(app), "_">>)
         \o IntStr(fig) \o fig_fmt

\* ------------------------------------------------------------------- ISO_Plot
\* The Y value of the key table.
VUnit(abbr, unit) ==
  IF ~IsNone(abbr) /\ ~IsNone(unit)
    THEN Val(abbr) \o <<" ", "[">> \o Val(unit) \o <<"]">>
    ELSE IF IsNone(abbr)
      THEN S_LIMIT \o <<" ", "[">> \o StrOpt(unit) \o <<"]">>
      ELSE Val(abbr)

\* An argument of any type is let through.
CoordOk_any(xy) == TRUE

\* The types an annotation coordinate argument is given as: a coordinate is
\* None or Some(type).
CoordOk(xy) == Val(xy) \in {"tuple", "list"}

\* A second fail marker given alone takes a code without using it up.
AnnotationKeys_reuse(xypass, xyfail, xyfail2, xybetter) ==
  LET key_pass == IF IsNone(xypass) THEN None ELSE Some(1)
      key_num1 == IF IsNone(xypass) THEN 1 ELSE 2
      key_fail == IF IsNone(xyfail) /\ IsNone(xyfail2) THEN None
                  ELSE Some(key_num1)
      key_num2 == IF IsNone(xyfail) THEN key_num1 ELSE key_num1 + 1
      key_better == IF IsNone(xybetter) THEN None ELSE Some(key_num2)
      text(xy, name, key) ==
        IF IsNone(xy) THEN <<>> ELSE <<[marker |-> name, text |-> KeyCode(Val(key))]>>
  IN  [raised |-> \E xy \in {xypass, xyfail, xyfail2, xybetter} :
                    ~IsNone(xy) /\ ~CoordOk(xy),
       key_pass |-> key_pass, key_fail |-> key_fail, key_better |-> key_better,
       drawn |-> text(xypass, "pass", key_pass) \o text(xyfail, "fail", key_fail)
                 \o text(xyfail2, "fail2", key_fail)
                 \o text(xybetter, "better", key_better)]

\* The annotation keys ISO_Plot assigns, in the order the code tests its
\* arguments, and the marker texts it draws with ax.text; raised when an
\* argument is neither a tuple nor a list.
AnnotationKeys(xypass, xyfail, xyfail2, xybetter) ==
  LET key_num0 == 1
      key_pass == IF IsNone(xypass) THEN None ELSE Some(key_num0)
      key_num1 == IF IsNone(xypass) THEN key_num0 ELSE key_num0 + 1
      key_fail1 == IF IsNone(xyfail) THEN None ELSE Some(key_num1)
      key_num2 == IF IsNone(xyfail) THEN key_num1 ELSE key_num1 + 1
      key_fail == IF ~IsNone(xyfail2) /\ IsNone(key_fail1)
                    THEN Some(key_num2) ELSE key_fail1
      key_num3 == IF ~IsNone(xyfail2) /\ IsNone(key_fail1)
                    THEN key_num2 + 1 ELSE key_num2
      key_better == IF IsNone(xybetter) THEN None ELSE Some(key_num3)
      text(xy, name, key) ==
        IF IsNone(xy) THEN <<>> ELSE <<[marker |-> name, text |-> KeyCode(Val(key))]>>
  IN  [raised |-> \E xy \in {xypass, xyfail, xyfail2, xybetter} :
                    ~IsNone(xy) /\ ~CoordOk(xy),
       key_pass |-> key_pass, key_fail |-> key_fail, key_better |-> key_better,
       drawn |-> text(xypass, "pass", key_pass) \o text(xyfail, "fail", key_fail)
                 \o text(xyfail2, "fail2", key_fail)
                 \o text(xybetter, "better", key_better)]

\* The given figure number is ignored.
ResolveFigure_auto(n, fig) == next_figure(n)

\* The figure number ISO_Plot uses: the next one, or the one given.
ResolveFigure(n, fig) == IF IsNone(fig) THEN next_figure(n) ELSE Val(fig)

\* The image is not written.
FigSave_unwritten(files, savename) == files

\* __FigSave, plt.savefig: the image files on disk once savename is written.
FigSave(files, savename) == files \cup {savename}

\* The path is appended though the image was not written.
SavedToZip_always(list, savename, ok) == AddFileToZip(list, Some(savename))

\* __FigSave: the manifest after it. plt.savefig raises when the image
\* cannot be written, and the path is then not appended.
SavedToZip(list, savename, ok) ==
  IF ok THEN AddFileToZip(list, Some(savename)) ELSE list

\* np.min(f) and np.max(f) of the sampled frequencies.
Min(f) == CHOOSE m \in {f[i] : i \in 1..Len(f)} : \A i \in 1..Len(f) : m <= f[i]
Max(f) == CHOOSE m \in {f[i] : i \in 1..Len(f)} : \A i \in 1..Len(f) : m >= f[i]

\* The lower x limit of a plot that is not a DC plot: 1, 10 or 100 MHz.
SnapDecade(f1) ==
  IF f1 < 100000 THEN 10000 ELSE IF f1 < 1000000 THEN 100000 ELSE 1000000

\* What ISO_Plot gives plt.xlim for the sampled frequencies f, in halves of
\* a frequency unit, in which the midpoint of a DC plot is whole: xlim when
\* the caller gives it, else fc-fd and fc+fd for a DC plot, else the
\* snapped minimum and 1000 MHz.
DisplayWindow(f, is_dc, xlim) ==
  IF ~IsNone(xlim) THEN <<2 * Val(xlim)[1], 2 * Val(xlim)[2]>>
  ELSE IF is_dc THEN <<3 * Min(f) - Max(f), 3 * Max(f) - Min(f)>>
  ELSE <<2 * SnapDecade(Min(f)), 2 * 10000000>>

\* ISO_Plot of the limit function fun: y, f = fun() comes first, then the
\* curve is drawn, one trace for each element when y[0] is a tuple, and the
\* x limits are set; the annotations come next, then the figure number and
\* the key-table records, and the image is saved last.
ISO_Plot(fun, is_dc, abbr, unit, xlim, xypass, xyfail, xyfail2, xybetter, fig, figname) ==
  \E samples \in {Call(fun, ArgNone)} :
    LET keys == IF samples.raised
                  THEN [AnnotationKeys(None, None, None, None)
                          EXCEPT !.raised = TRUE]
                  ELSE AnnotationKeys(xypass, xyfail, xyfail2, xybetter)
        f == ResolveFigure(fig_num, fig)
        savename == FigFilename(appendix, f, figname)
    IN  /\ IF keys.raised
             THEN UNCHANGED <<session, saved>>
             ELSE /\ fig_num' = f
                  /\ key_table' = PlotRecords(key_table, appendix, f,
                                     VUnit(abbr, unit), keys.key_pass,
                                     keys.key_fail, keys.key_better)
                  /\ saved' = IF writable THEN FigSave(saved, savename)
                              ELSE saved
                  /\ zip_file_list' = SavedToZip(zip_file_list, savename,
                                                 writable)
                  /\ UNCHANGED appendix
        /\ last' = [op |-> "Plot", fun |-> fun.name,
                    is_multi |-> ~samples.raised /\ samples.y.v[1].kind = "tuple",
                    is_dc |-> is_dc, xlim |-> xlim,
                    window |-> IF samples.raised THEN None
                               ELSE Some(DisplayWindow(samples.f, is_dc, xlim)),
                    abbr |-> abbr, unit |-> unit,
                    xypass |-> xypass, xyfail |-> xyfail, xyfail2 |-> xyfail2,
                    xybetter |-> xybetter, fig |-> fig, figname |-> figname,
                    drawn |-> keys.drawn,
                    unsaved |-> ~keys.raised /\ ~writable,
                    raised |-> keys.raised \/ ~writable, pre |-> Pre]
        /\ calls' = Logged(IF keys.raised THEN "PlotRaised"
                           ELSE IF ~writable THEN "PlotUnsaved"
                           ELSE IF IsNone(fig) THEN "Plot" ELSE "PlotFig",
                           IF IsNone(fig) THEN 0 ELSE Val(fig))
        /\ UNCHANGED <<config, key_file, zip_archive, world>>

\* ----------------------------------------------------------------- ISO_Wrapup
\* __CreateKeyTable: the key file's name.
KeyFileName == fig_dir \o std_name \o S_KEYS

\* __CreateKeyTable: the text of the key file, every line of the table
\* written in turn.
RECURSIVE WriteLines(_)
WriteLines(table) ==
  IF table = <<>> THEN <<>> ELSE Head(table) \o WriteLines(Tail(table))

\* The match of [^\\]+$ in filename: what follows its last backslash (empty:
\* no match).
ShortName(filename) ==
  LET n == Len(filename)
      cut == CHOOSE i \in 0..n :
               /\ (i = 0 \/ filename[i] = "\\")
               /\ \A k \in (i + 1)..n : filename[k] # "\\"
  IN  SubSeq(filename, cut + 1, n)

\* The files are archived last to first.
ZipMembers_reversed(list) ==
  [i \in 1..Len(list) |->
     [filename |-> list[Len(list) + 1 - i],
      arcname |-> ShortName(list[Len(list) + 1 - i])]]

\* __CreateZipArchive: the members written, in order, up to the first file
\* name the pattern does not match (m is then None and m.group raises).
RECURSIVE ZipMembers(_)
ZipMembers(list) ==
  IF list = <<>> \/ ShortName(Head(list)) = <<>> THEN <<>>
  ELSE <<[filename |-> Head(list), arcname |-> ShortName(Head(list))]>>
       \o ZipMembers(Tail(list))

\* ------------------------------------------------------- the limit functions
\* A call of the limit function F, which leaves the session alone.
CallFunction(F, arg) ==
  \E ret \in {Call(F, arg)} :
    /\ last' = [op |-> "Call", fun |-> F.name, arg |-> arg,
                ret |-> ret, raised |-> ret.raised, pre |-> Pre]
    /\ UNCHANGED <<config, session, disk, world>>
    /\ calls' = Logged("Call", 0)

\* A call of feval(x, F) itself.
CallFeval(x, F) ==
  \E ret \in {feval(x, Target(F))} :
    /\ last' = [op |-> "feval", fun |-> F.name, arg |-> x, ret |-> ret,
                evaluations |-> Evaluations(x), raised |-> ret.raised,
                pre |-> Pre]
    /\ UNCHANGED <<config, session, disk, world>>
    /\ calls' = Logged("feval", 0)

\* ISO_Wrapup; where the key file cannot be written, open raises and
\* nothing is done.
ISO_Wrapup ==
  LET list == AddFileToZip(zip_file_list, Some(KeyFileName))
      members == ZipMembers(list)
  IN  /\ IF writable
           THEN /\ key_file' = Some(WriteLines(key_table))
                /\ zip_file_list' = list
                /\ zip_archive' = Some(members)
           ELSE UNCHANGED <<key_file, zip_file_list, zip_archive>>
      /\ last' = [op |-> "Wrapup",
                  raised |-> ~writable \/ Len(members) < Len(list),
                  pre |-> Pre]
      /\ UNCHANGED <<config, fig_num, appendix, key_table, saved, world>>
      /\ calls' = Logged(IF writable THEN "Wrapup" ELSE "WrapupRaised", 0)

\* ------------------------------------------------------------ the calls made
\* The arguments the calls are made with.
SkipArgs == {-1, 1, 2}
ExternalFiles == { Some(<<"X", "\\", "d">>), Some(<<"x", "/", "e">>) }
ExternalSkips == {0, 1}
AppendixArgs ==
  { None, Some(<<"b">>), Some(<<"Z", "x">>), Some(<<"7">>), Some(<<"\\">>),
    Some(<<>>) }
FigArgs == { None, Some(1), Some(2) }
FigNames == { None, Some(<<"R", "L">>) }
CoordArgs == { None, Some("tuple"), Some("list"), Some("int") }
Abbr_RL == Some(<<"R", "L">>)
Unit_dB == Some(<<"d", "B">>)

\* A session of any configuration; its plots carry no annotation or a pass
\* and a fail annotation.
Next ==
  \/ nops < MaxOps /\ \E skip \in SkipArgs : ISO_Skip_Figure(skip)
  \/ nops < MaxOps /\ \E filename \in ExternalFiles, skip \in ExternalSkips :
       ISO_Add_External_File(filename, skip)
  \/ nops < MaxOps /\ \E arg \in AppendixArgs : ISO_Start_Appendix(arg)
  \/ nops < MaxOps /\ \E fig \in FigArgs, figname \in FigNames :
       ISO_Plot(Atten_c_class2_conn_ES, FALSE, Abbr_RL, Unit_dB, None, None,
                None, None, None, fig, figname)
  \/ nops < MaxOps /\ ISO_Wrapup

Spec == Init /\ [][Next]_vars

\* A session of one configuration whose plots are given every combination
\* of annotation coordinate arguments.
InitKeys ==
  /\ Init
  /\ std_name = <<"I", "S", "O", " ", "9", "9", "9", "9", "-", "1">>
  /\ fig_dir = <<"D", "\\">>
  /\ filename_style = ISO_IMPROVED_STYLE

NextKeys ==
  \/ nops < MaxKeyOps /\
       \E xypass \in CoordArgs, xyfail \in CoordArgs, xyfail2 \in CoordArgs,
          xybetter \in CoordArgs :
         ISO_Plot(Atten_c_class2_conn_ES, FALSE, Abbr_RL, Unit_dB, None,
                  xypass, xyfail, xyfail2, xybetter, None, None)
  \/ nops < MaxKeyOps /\ ISO_Start_Appendix(None)

SpecKeys == InitKeys /\ [][NextKeys]_vars

\* The output directory stops being writable: nothing of the session
\* changes.
RevokeWrite ==
  /\ writable' = FALSE
  /\ UNCHANGED <<config, session, disk, peer, last, calls>>

\* The annotation coordinates of the plots of such a session.
SaveCoordArgs == { None, Some("tuple") }

\* A session of one configuration whose output directory may stop being
\* writable at any moment; its plots take every combination of annotations.
NextSave ==
  \/ nops < MaxSaveOps /\ \E skip \in SkipArgs : ISO_Skip_Figure(skip)
  \/ nops < MaxSaveOps /\
       \E filename \in ExternalFiles, skip \in ExternalSkips :
         ISO_Add_External_File(filename, skip)
  \/ nops < MaxSaveOps /\
       \E arg \in {None, Some(<<"b">>)} : ISO_Start_Appendix(arg)
  \/ nops < MaxSaveOps /\
       \E xypass \in SaveCoordArgs, xyfail \in SaveCoordArgs,
          xyfail2 \in SaveCoordArgs, xybetter \in SaveCoordArgs :
         ISO_Plot(Atten_c_class2_conn_ES, FALSE, Abbr_RL, Unit_dB, None,
                  xypass, xyfail, xyfail2, xybetter, None, None)
  \/ nops < MaxSaveOps /\ ISO_Wrapup
  \/ writable /\ RevokeWrite

SpecSave == InitKeys /\ [][NextSave]_vars

\* The caller turns to the other instance: its next calls are made on the
\* instance that was the peer, and each instance keeps what it holds. The
\* files on disk are those of both.
Rebind ==
  /\ fig_num' = peer.fig_num
  /\ appendix' = peer.appendix
  /\ key_table' = peer.key_table
  /\ zip_file_list' = peer.zip_file_list
  /\ last' = peer.last
  /\ peer' = Held
  /\ UNCHANGED <<config, disk, writable>>
  /\ calls' = peer.calls

\* Two instances of one configuration, the calls on them interleaved in
\* any way.
NextTwo ==
  \/ Len(calls) + Len(peer.calls) < MaxTwoOps /\
       \E skip \in SkipArgs : ISO_Skip_Figure(skip)
  \/ Len(calls) + Len(peer.calls) < MaxTwoOps /\
       \E skip \in ExternalSkips :
         ISO_Add_External_File(Some(<<"x", "/", "e">>), skip)
  \/ Len(calls) + Len(peer.calls) < MaxTwoOps /\ ISO_Start_Appendix(None)
  \/ Len(calls) + Len(peer.calls) < MaxTwoOps /\
       \E fig \in {None, Some(2)} :
         ISO_Plot(Atten_c_class2_conn_ES, FALSE, Abbr_RL, Unit_dB, None,
                  None, None, None, None, fig, None)
  \/ Len(calls) + Len(peer.calls) < MaxTwoOps /\ ISO_Wrapup
  \/ Rebind

SpecTwo == InitKeys /\ [][NextTwo]_vars

\* The limit functions.
Functions == {Catalogue[i] : i \in 1..Len(Catalogue)}

\* The frequencies the limit functions are called with as scalars: below
\* every domain, the ends of the domains and the frequencies next to them,
\* every frequency where a function changes branch, and above every domain.
ScalarFreqs ==
  { -2000, -1000, 1000, 2000, 5000, 9999, 10000, 99999, 100000, 299999,
    300000, 400000, 500000, 500001, 600000, 1000000, 1300000, 1897367,
    1897368, 3999999, 4000000, 5999999, 6000000, 6000001, 7000000 }
\* The frequencies of the arrays: below the domains, inside some, inside
\* all, above them.
ArrayFreqs == { 5000, 50000, 500000, 7000000 }
CallArgs ==
  {ArgNone} \cup {ArgFloat(f) : f \in ScalarFreqs}
  \cup {ArgArray(fs) : fs \in UNION {[1..n -> ArrayFreqs] : n \in 0..MaxArrayLen}}

\* What feval is called with: a float, arrays, an int and a list.
FevalArgs ==
  { ArgFloat(500000), ArgArray(<<>>), ArgArray(<<500000, 5000>>),
    [conv |-> "int", x |-> <<50>>], [conv |-> "list", x |-> <<500000>>],
    [conv |-> "list", x |-> <<>>] }
\* The abbreviation, unit and x limits a plot is given.
AbbrArgs == { None, Abbr_RL }
UnitArgs == { None, Unit_dB }
XlimArgs == { None, Some(<<50000, 2000000>>) }

\* A session of one configuration where every limit function is called in
\* the three ways, given to feval, and plotted as a DC plot or not, with
\* and without abbreviation, unit and x limits.
NextCatalogue ==
  \/ nops < MaxCatOps /\
       \E F \in Functions, arg \in CallArgs : CallFunction(F, arg)
  \/ nops < MaxCatOps /\
       \E F \in Functions, x \in FevalArgs : CallFeval(x, F)
  \/ nops < MaxCatOps /\
       \E F \in Functions, is_dc \in BOOLEAN, abbr \in AbbrArgs,
          unit \in UnitArgs, xlim \in XlimArgs :
         ISO_Plot(F, is_dc, abbr, unit, xlim, None, None, None, None, None,
                  None)

SpecCatalogue == InitKeys /\ [][NextCatalogue]_vars

\* ===================================================================== claims
\* What the claims are stated with. None of it is used by the model above.

IsPrefix(p, s) == Len(p) <= Len(s) /\ SubSeq(s, 1, Len(p)) = p

\* NNN: the number zero-padded to three digits, written out digit by digit
\* (a minus sign takes one of the three places; a number of four digits
\* keeps them).
NNN(n) ==
  LET d(k) == Ascii[17 + k]
      a == IF n < 0 THEN -n ELSE n
  IN  IF n >= 1000 \/ n <= -100 THEN IntStr(n)
      ELSE IF n >= 0 THEN <<d(a \div 100), d((a \div 10) % 10), d(a % 10)>>
      ELSE <<"-", d(a \div 10), d(a % 10)>>

\* The figure identifier: FIG-NNN, or FIG-<appendix>.NNN under an appendix.
FigureId(app, n) ==
  IF IsNone(app) THEN <<"F", "I", "G", "-">> \o NNN(n)
  ELSE <<"F", "I", "G", "-", Val(app), ".">> \o NNN(n)

\* The fields of a key-table line: the texts its tabs separate, the closing
\* newline left out.
RECURSIVE Fields(_)
Fields(line) ==
  LET body == IF line # <<>> /\ line[Len(line)] = "\n"
                THEN SubSeq(line, 1, Len(line) - 1) ELSE line
      tabs == {i \in 1..Len(body) : body[i] = "\t"}
      t == CHOOSE i \in tabs : \A j \in tabs : i <= j
  IN  IF tabs = {} THEN <<body>>
      ELSE <<SubSeq(body, 1, t - 1)>> \o Fields(SubSeq(body, t + 1, Len(body)))

\* The figure identifier a key-table line is tagged with.
LineTag(line) == Fields(line)[1]

\* The last call was a Plot that completed.
PlotDone == last.op = "Plot" /\ ~last.raised

\* The key-table records the last call appended and the manifest entries it
\* appended.
NewRecords ==
  SubSeq(key_table, Len(last.pre.key_table) + 1, Len(key_table))
NewFiles ==
  SubSeq(zip_file_list, Len(last.pre.zip_file_list) + 1, Len(zip_file_list))

\* The base name of the image path the improved style gives figure n:
\* FIG-[<appendix>.]<NNN>_<standard_name>_(E)_Ed1[ <caption>]<ext>.
ImprovedBase(app, n, figname) ==
  FigureId(app, n) \o <<"_">> \o std_name
  \o <<"_", "(", "E", ")", "_", "E", "d", "1">>
  \o (IF IsNone(figname) THEN <<>> ELSE <<" ">> \o Val(figname))
  \o fig_fmt

\* The base name the default style gives figure n:
\* <std_num><std_ed>fig[_<appendix>_]<n><ext>, the number not padded.
DefaultBase(app, n) ==
  std_num \o std_ed \o <<"f", "i", "g">>
  \o (IF IsNone(app) THEN <<>> ELSE <<"_", Val(app), "_">>)
  \o IntStr(n) \o fig_fmt

\* Every call so far was a completed Plot without an explicit figure number.
AutoPlotRun == \A i \in 1..Len(calls) : calls[i].op = "Plot"

\* The figure identifiers the key table is tagged with, in order, each run of
\* equal tags counted once.
RECURSIVE TagRuns(_)
TagRuns(table) ==
  IF table = <<>> THEN <<>>
  ELSE IF Len(table) >= 2 /\ LineTag(table[1]) = LineTag(table[2])
    THEN TagRuns(Tail(table))
    ELSE <<LineTag(table[1])>> \o TagRuns(Tail(table))

\* The numbers 1..k are assigned in order, and the key table is tagged
\* FIG-001, FIG-002, ... in that order.
AutoRunNumbered ==
  /\ fig_num = Len(calls)
  /\ \A i \in 1..Len(calls) : calls[i].before = i - 1 /\ calls[i].after = i
  /\ TagRuns(key_table) = [i \in 1..Len(calls) |-> FigureId(None, i)]
  /\ Len(calls) >= 1 =>
       LineTag(key_table[1]) = <<"F", "I", "G", "-", "0", "0", "1">>
  /\ Len(calls) = 2 =>
       LineTag(key_table[Len(key_table)]) = <<"F", "I", "G", "-", "0", "0", "2">>
  /\ Len(zip_file_list) = Len(calls)

\* C1 as stated: in a fresh session the k-th of a run of consecutive Plot
\* calls without explicit figure number is assigned figure number k, its
\* key-table records are tagged FIG-001, FIG-002, ... and the image paths
\* FIG-001..., FIG-002... are appended to the manifest in the same order.
\* Violated: in the default filename style the image names are
\* <std_num><std_ed>fig1, fig2, ...
C1_AsStated ==
  AutoPlotRun =>
    /\ AutoRunNumbered
    /\ \A i \in 1..Len(calls) :
         IsPrefix(fig_dir \o FigureId(None, i), zip_file_list[i])

\* C1 amended: the numbers and the key-table tags are as stated in every
\* session; the image paths begin FIG-001, FIG-002, ... (after the output
\* directory) in a session of the improved filename style, and are
\* <std_num><std_ed>fig1, fig2, ... in the default style.
C1_AutoNumbering ==
  AutoPlotRun =>
    /\ AutoRunNumbered
    /\ \A i \in 1..Len(calls) :
         IF filename_style = ISO_IMPROVED_STYLE
           THEN IsPrefix(fig_dir \o FigureId(None, i) \o <<"_">>, zip_file_list[i])
           ELSE zip_file_list[i] = fig_dir \o DefaultBase(None, i)

\* Two sequential Plot calls on a fresh session of the improved style.
C1_Witness ==
  /\ AutoPlotRun
  /\ Len(calls) = 2
  /\ filename_style = ISO_IMPROVED_STYLE
  /\ Len(key_table) = 4

\* The session outside the counter is as the last call found it, and
\* nothing was written to disk.
NoOutput ==
  /\ key_table = last.pre.key_table
  /\ zip_file_list = last.pre.zip_file_list
  /\ appendix = last.pre.appendix
  /\ saved = last.pre.saved
  /\ key_file = last.pre.key_file
  /\ zip_archive = last.pre.zip_archive

\* The image path the session's filename style gives figure n.
StylePath(app, n, figname) ==
  IF filename_style = ISO_IMPROVED_STYLE
    THEN fig_dir \o ImprovedBase(app, n, figname)
    ELSE fig_dir \o DefaultBase(app, n)

\* The last call, a completed Plot, used figure number n: its records are
\* tagged with n's identifier and its image is named after n.
PlotUsed(n) ==
  /\ Len(NewRecords) >= 2
  /\ \A r \in 1..Len(NewRecords) :
       LineTag(NewRecords[r]) = FigureId(appendix, n)
  /\ NewFiles = <<StylePath(appendix, n, last.figname)>>

C3_ExplicitFigure ==
  /\ PlotDone /\ ~IsNone(last.fig) =>
       /\ fig_num = Val(last.fig)
       /\ PlotUsed(Val(last.fig))
  /\ \A i \in 1..(Len(calls) - 1) :
       calls[i].op = "PlotFig" /\ calls[i + 1].op = "Plot" =>
         /\ calls[i].after = calls[i].arg
         /\ calls[i + 1].after = calls[i].arg + 1
         /\ i + 1 = Len(calls) => PlotUsed(calls[i].arg + 1)

\* An explicit number lower than the counter, then a Plot without number.
C3_Witness ==
  /\ Len(calls) = 3
  /\ calls[2].op = "PlotFig" /\ calls[2].arg < calls[2].before
  /\ calls[3].op = "Plot"
  /\ fig_num = calls[2].arg + 1

\* The calls that start an appendix: without a label, with one.
StartCalls == {"StartAppendix", "StartAppendixLabel"}

\* The appendix label the i-th call found.
AppBefore(i) == IF i = 1 THEN None ELSE calls[i - 1].app

\* C4: StartAppendix() called twice in succession on a session that has
\* started no appendix sets the label to "A" and then to "B" and the counter
\* to 0 each time, and the first Plot without explicit number after each
\* call is numbered 1 (FIG-A.001, FIG-B.001), whatever the counter was.
C4_TwoAppendices ==
  /\ \A i \in 1..Len(calls) :
       calls[i].op = "StartAppendix" /\ IsNone(AppBefore(i)) =>
         /\ calls[i].app = Some("A")
         /\ calls[i].after = 0
         /\ \A j \in (i + 1)..Len(calls) :
              /\ calls[j].op = "StartAppendix"
              /\ \A m \in (i + 1)..(j - 1) : calls[m].op \notin StartCalls
              => calls[j].app = Some("B") /\ calls[j].after = 0
  /\ \A j \in 2..Len(calls) :
       calls[j - 1].op = "StartAppendix" /\ calls[j].op = "Plot" =>
         /\ calls[j].after = 1
         /\ j = Len(calls) =>
              \A r \in 1..Len(NewRecords) :
                LineTag(NewRecords[r]) =
                  <<"F", "I", "G", "-", Val(calls[j - 1].app), ".", "0", "0", "1">>

\* StartAppendix() twice on a fresh session, then a Plot: FIG-B.001.
C4_Witness ==
  /\ Len(calls) = 3
  /\ calls[1].op = "StartAppendix" /\ calls[2].op = "StartAppendix"
  /\ calls[3].op = "Plot"
  /\ LineTag(key_table[1]) = <<"F", "I", "G", "-", "B", ".", "0", "0", "1">>

\* The letters, in order.
Letters ==
  <<"A", "B", "C", "D", "E", "F", "G", "H", "I", "J", "K", "L", "M", "N",
    "O", "P", "Q", "R", "S", "T", "U", "V", "W", "X", "Y", "Z">>
IsLetter(c) == \E i \in 1..26 : Letters[i] = c

\* What follows a label: the next letter after A..Y; after any other
\* character, the character of the next code point.
Following(c) ==
  IF \E i \in 1..25 : Letters[i] = c
    THEN Letters[(CHOOSE i \in 1..25 : Letters[i] = c) + 1]
    ELSE chr(ord(c) + 1)

\* The upper-case letter of a lower-case one; any other character itself.
UpperCased(c) ==
  LET lower_letters ==
        <<"a", "b", "c", "d", "e", "f", "g", "h", "i", "j", "k", "l", "m",
          "n", "o", "p", "q", "r", "s", "t", "u", "v", "w", "x", "y", "z">>
  IN  IF \E i \in 1..26 : lower_letters[i] = c
        THEN Letters[CHOOSE i \in 1..26 : lower_letters[i] = c]
        ELSE c

C6_AsStated == IsNone(appendix) \/ IsLetter(Val(appendix))

\* No successful StartAppendix call has been made.
NoAppendixYet == \A i \in 1..Len(calls) : calls[i].op \notin StartCalls

\* The label the latest successful StartAppendix call set.
CurrentLabel ==
  LET j == CHOOSE i \in 1..Len(calls) :
             /\ calls[i].op \in StartCalls
             /\ \A m \in (i + 1)..Len(calls) : calls[m].op \notin StartCalls
  IN  calls[j].app

\* The identifier the figures carry: un-prefixed before any StartAppendix
\* call, prefixed with the current label after one; once prefixed, always
\* prefixed.
C7_Identifier ==
  /\ NoAppendixYet => IsNone(appendix)
  /\ ~NoAppendixYet => ~IsNone(appendix) /\ appendix = CurrentLabel
  /\ \A i \in 1..Len(calls) : \A j \in i..Len(calls) :
       ~IsNone(calls[i].app) => ~IsNone(calls[j].app)
  /\ PlotDone =>
       \A r \in 1..Len(NewRecords) :
         LineTag(NewRecords[r]) =
           IF NoAppendixYet THEN <<"F", "I", "G", "-">> \o NNN(fig_num)
           ELSE <<"F", "I", "G", "-">> \o CurrentLabel \o <<".">> \o NNN(fig_num)

\* The file name of the last Plot begins with the figure identifier.
C7_FileHasIdentifier ==
  /\ Len(NewFiles) = 1
  /\ IsPrefix(fig_dir \o
              (IF NoAppendixYet THEN <<"F", "I", "G", "-">> \o NNN(fig_num)
               ELSE <<"F", "I", "G", "-">> \o CurrentLabel \o <<".">> \o NNN(fig_num))
              \o <<"_">>, NewFiles[1])

\* C7 as stated: every key-table record and every image file name of a Plot
\* made before any StartAppendix call uses FIG-NNN, every one made after a
\* StartAppendix call uses FIG-<appendix>.NNN with the label current at the
\* time, and no operation returns the session to un-prefixed numbering.
\* Violated: the default filename style does not put the identifier in the
\* file name.
C7_AsStated ==
  /\ C7_Identifier
  /\ PlotDone => C7_FileHasIdentifier

\* C7 amended: the key-table records are as stated in every session; the
\* image file names are as stated in a session of the improved filename
\* style, and are <std_num><std_ed>fig<N>, or
\* <std_num><std_ed>fig_<appendix>_<N> after a StartAppendix call, in a
\* session of the default style.
C7_FigureIds ==
  /\ C7_Identifier
  /\ PlotDone =>
       IF filename_style = ISO_IMPROVED_STYLE
         THEN C7_FileHasIdentifier
         ELSE NewFiles = <<fig_dir \o DefaultBase(appendix, fig_num)>>

\* A Plot before and a Plot after a StartAppendix call, improved style.
C7_Witness ==
  /\ Len(calls) = 3
  /\ calls[1].op = "Plot" /\ calls[2].op \in StartCalls /\ calls[3].op = "Plot"
  /\ filename_style = ISO_IMPROVED_STYLE
  /\ LineTag(key_table[1]) # LineTag(key_table[3])

\* The annotation kinds the last Plot was given, in the order pass, fail,
\* better; fail is present when either fail coordinate is given.
KindsGiven ==
  (IF ~IsNone(last.xypass) THEN <<<<"P", "a", "s", "s">>>> ELSE <<>>)
  \o (IF ~IsNone(last.xyfail) \/ ~IsNone(last.xyfail2)
        THEN <<<<"F", "a", "i", "l">>>> ELSE <<>>)
  \o (IF ~IsNone(last.xybetter) THEN <<<<"B", "e", "t", "t", "e", "r">>>> ELSE <<>>)

\* The code "(i)" of the i-th annotation kind, i in 1..3.
Code(i) == <<"(", Ascii[17 + i], ")">>

\* The code of kind (a text) among the kinds given.
CodeOf(kind) == Code(CHOOSE i \in 1..Len(KindsGiven) : KindsGiven[i] = kind)

\* The kind a drawn marker stands for.
KindOfMarker(marker) ==
  IF marker = "pass" THEN <<"P", "a", "s", "s">>
  ELSE IF marker \in {"fail", "fail2"} THEN <<"F", "a", "i", "l">>
  ELSE <<"B", "e", "t", "t", "e", "r">>

\* C8: a completed Plot appends one X record, one Y record, then one record
\* for each annotation kind given among pass, fail (either fail coordinate)
\* and better, coded "(1)", "(2)", ... in that order without gaps and
\* mapped to "Pass", "Fail", "Better"; every marker drawn carries the code
\* of its kind, the second fail marker the fail code; a pass and a fail
\* annotation make 4 records.
C8_KeyRecords ==
  PlotDone =>
    /\ Len(NewRecords) = 2 + Len(KindsGiven)
    /\ SubSeq(key_table, 1, Len(last.pre.key_table)) = last.pre.key_table
    /\ Fields(NewRecords[1])[2] = <<"X">>
    /\ Fields(NewRecords[2])[2] = <<"Y">>
    /\ \A i \in 1..Len(KindsGiven) :
         Fields(NewRecords[2 + i]) =
           <<FigureId(appendix, fig_num), Code(i), KindsGiven[i]>>
    /\ \A r \in 1..Len(NewRecords) :
         LineTag(NewRecords[r]) = FigureId(appendix, fig_num)
    /\ \A m \in 1..Len(last.drawn) :
         last.drawn[m].text = CodeOf(KindOfMarker(last.drawn[m].marker))
    /\ (~IsNone(last.xypass) /\ ~IsNone(last.xyfail) /\ IsNone(last.xybetter))
         => Len(NewRecords) = 4

\* A Plot given only the second fail coordinate and a better coordinate:
\* Fail is "(1)", Better is "(2)".
C8_Witness ==
  /\ PlotDone
  /\ IsNone(last.xypass) /\ IsNone(last.xyfail)
  /\ ~IsNone(last.xyfail2) /\ ~IsNone(last.xybetter)
  /\ Len(NewRecords) = 4
  /\ Len(last.pre.key_table) > 0

\* The last call, a Plot, was given a coordinate that is neither a tuple nor
\* a list.
BadCoordinate ==
  /\ last.op = "Plot"
  /\ \E xy \in {last.xypass, last.xyfail, last.xyfail2, last.xybetter} :
       ~IsNone(xy) /\ Val(xy) \notin {"tuple", "list"}

\* C9: a Plot given a pass, fail, second-fail or better coordinate that is
\* neither a tuple nor a list raises, and leaves the counter, the appendix,
\* the key table and the manifest as they were.
C9_BadCoordinate ==
  BadCoordinate =>
    /\ last.raised
    /\ fig_num = last.pre.fig_num
    /\ NoOutput

\* A Plot with a good pass coordinate and a bad better coordinate, made on
\* a session that has plotted a figure.
C9_Witness ==
  /\ BadCoordinate
  /\ last.xypass = Some("tuple") /\ last.xybetter = Some("int")
  /\ last.raised
  /\ Len(key_table) > 0 /\ fig_num = 1

\* The paths of the file named base inside the directory dir: dir, a
\* separator, base; the separator is not repeated when dir ends in one.
InDirectory(dir, base) ==
  { dir \o sep \o base : sep \in {<<"/">>, <<"\\">>} }
  \cup (IF Len(dir) > 0 /\ dir[Len(dir)] \in {"/", "\\"}
          THEN {dir \o base} ELSE {})

\* C10 as stated: in every configuration (any output directory string, any
\* filename style) the image path saved and appended to the manifest is the
\* file FIG-[<appendix>.]<NNN>_<standard_name>_(E)_Ed1[ <caption>]<ext>
\* inside the output directory.
\* Violated twice over: the default filename style names the file
\* <std_num><std_ed>fig[_<appendix>_]<N><ext>, and an output directory
\* string without a trailing separator is prefixed to the name as it is.
C10_AsStated ==
  PlotDone =>
    /\ Len(NewFiles) = 1
    /\ NewFiles[1] \in
         InDirectory(fig_dir, ImprovedBase(appendix, fig_num, last.figname))
    /\ NewFiles[1] \in saved

\* C10 amended: in a session of the improved filename style the path is the
\* output directory string, as it is given, directly followed by
\* FIG-[<appendix>.]<NNN>_<standard_name>_(E)_Ed1[ <caption>]<ext>; in a
\* session of the default style it is the output directory string followed
\* by <std_num><std_ed>fig[_<appendix>_]<N><ext>, the number not padded
\* and the caption not used. The path is saved and is the one entry
\* appended to the manifest.
C10_ImagePath ==
  PlotDone =>
    /\ NewFiles =
         << IF filename_style = ISO_IMPROVED_STYLE
              THEN fig_dir \o ImprovedBase(appendix, fig_num, last.figname)
              ELSE fig_dir \o DefaultBase(appendix, fig_num) >>
    /\ NewFiles[1] \in saved
    /\ saved = last.pre.saved \cup {NewFiles[1]}

\* A Plot with a caption under an appendix, improved style, the output
\* directory given without its separator.
C10_Witness ==
  /\ PlotDone
  /\ filename_style = ISO_IMPROVED_STYLE
  /\ ~IsNone(last.figname) /\ ~IsNone(appendix)
  /\ fig_dir = <<"D">>
  /\ Len(zip_file_list) = 1

\* The lines of a text: each runs up to and includes its newline; what
\* follows the last newline, if anything, is a line too.
RECURSIVE Lines(_)
Lines(text) ==
  LET ends == {i \in 1..Len(text) : text[i] = "\n"}
      e == CHOOSE i \in ends : \A j \in ends : i <= j
  IN  IF text = <<>> THEN <<>>
      ELSE IF ends = {} THEN <<text>>
      ELSE <<SubSeq(text, 1, e)>> \o Lines(SubSeq(text, e + 1, Len(text)))

\* The calls of the log that are Wrapup calls, completed Plot calls and
\* AddExternalFile calls.
Wrapups == {i \in 1..Len(calls) : calls[i].op = "Wrapup"}
PlotCalls == {i \in 1..Len(calls) : calls[i].op \in {"Plot", "PlotFig"}}
ExternalCalls == {i \in 1..Len(calls) : calls[i].op = "AddExternal"}

\* The last call is the session's first Wrapup.
FirstWrapup == last.op = "Wrapup" /\ ~last.raised /\ Wrapups = {Len(calls)}

\* The path of the key-table file: <standard_name>_(E)_KEYS.txt after the
\* output directory string.
KeyTablePath ==
  fig_dir \o std_name
  \o <<"_", "(", "E", ")", "_", "K", "E", "Y", "S", ".", "t", "x", "t">>

\* The paths of the archive's members, in the order they were written.
ArchivedPaths ==
  [i \in 1..Len(Val(zip_archive)) |-> Val(zip_archive)[i].filename]

\* The paths the model's AddExternalFile calls are given.
ExternalPaths == {Val(f) : f \in ExternalFiles}

\* C11: the first Wrapup of a session, after any calls of Plot, SkipFigure,
\* AddExternalFile and StartAppendix, writes a key-table file whose lines
\* are the accumulated records in order, appends that file's path as the
\* last manifest entry, and writes an archive whose members are the
\* manifest entries in manifest order: one entry per completed Plot (its
\* saved image), one per AddExternalFile call, and the key-table file.
C11_Wrapup ==
  FirstWrapup =>
    /\ ~IsNone(key_file) /\ Lines(Val(key_file)) = last.pre.key_table
    /\ key_table = last.pre.key_table
    /\ zip_file_list = Append(last.pre.zip_file_list, KeyTablePath)
    /\ ~IsNone(zip_archive) /\ ArchivedPaths = zip_file_list
    /\ Len(last.pre.zip_file_list) =
         Cardinality(PlotCalls) + Cardinality(ExternalCalls)
    /\ \A i \in 1..Len(last.pre.zip_file_list) :
         last.pre.zip_file_list[i] \in saved \cup ExternalPaths
    /\ \A f \in saved : \E i \in 1..Len(last.pre.zip_file_list) :
         last.pre.zip_file_list[i] = f

\* Wrapup after a Plot and an AddExternalFile: three members, the key
\* file last, two key-table lines.
C11_Witness ==
  /\ FirstWrapup
  /\ Cardinality(PlotCalls) = 1 /\ Cardinality(ExternalCalls) = 1
  /\ Len(Val(zip_archive)) = 3
  /\ Val(zip_archive)[3].filename = KeyTablePath
  /\ Len(Lines(Val(key_file))) = 2

\* C12 as stated: once a Wrapup has completed, no later call changes the
\* key table or the manifest or rewrites the key-table file or the archive.
\* Violated: a Plot after Wrapup appends to both, and a second Wrapup
\* appends the key-table path again and writes both files again.
C12_AsStated ==
  (last.op # "init" /\ ~IsNone(last.pre.zip_archive)) =>
    /\ key_table = last.pre.key_table
    /\ zip_file_list = last.pre.zip_file_list
    /\ key_file = last.pre.key_file
    /\ zip_archive = last.pre.zip_archive

\* C13: from an empty output directory, before the first Wrapup the
\* key-table file and the archive do not exist while the image of every
\* completed Plot does; the two files come into existence only by Wrapup.
C13_BeforeWrapup ==
  /\ Wrapups = {} =>
       /\ IsNone(key_file) /\ IsNone(zip_archive)
       /\ \A i \in 1..Len(zip_file_list) :
            zip_file_list[i] \in saved \cup ExternalPaths
       /\ PlotCalls # {} => saved # {}
       /\ PlotDone => Len(NewFiles) = 1 /\ NewFiles[1] \in saved
  /\ (last.op # "init" /\
      \/ (IsNone(last.pre.key_file) /\ ~IsNone(key_file))
      \/ (IsNone(last.pre.zip_archive) /\ ~IsNone(zip_archive)))
       => last.op = "Wrapup"

\* Three calls, none a Wrapup, the last a completed Plot: its image is on
\* disk, the key-table file and the archive are not.
C13_Witness ==
  /\ Len(calls) = 3 /\ Wrapups = {}
  /\ PlotDone /\ NewFiles[1] \in saved
  /\ Len(key_table) >= 4
  /\ IsNone(key_file) /\ IsNone(zip_archive)

\* C14: AddExternalFile(path, skip) appends path as the new last manifest
\* entry, advances the counter by skip (by 0 when skip = 0), and leaves the
\* key table and the appendix label as they were.
C14_AddExternalFile ==
  last.op = "AddExternal" =>
    /\ zip_file_list = Append(last.pre.zip_file_list, Val(last.filename))
    /\ fig_num = last.pre.fig_num + last.skip
    /\ key_table = last.pre.key_table
    /\ appendix = last.pre.appendix
    /\ saved = last.pre.saved

\* AddExternalFile with skip 0 under an appendix, after a Plot.
C14_Witness ==
  /\ last.op = "AddExternal" /\ last.skip = 0
  /\ ~IsNone(appendix) /\ Len(key_table) = 2
  /\ Len(zip_file_list) = 2 /\ fig_num = 1

\* The base filename of a path: what follows its last separator, slash or
\* backslash.
BaseName(path) ==
  LET seps == {i \in 1..Len(path) : path[i] \in {"/", "\\"}}
      cut == IF seps = {} THEN 0
             ELSE CHOOSE i \in seps : \A j \in seps : j <= i
  IN  SubSeq(path, cut + 1, Len(path))

\* C15 as stated: every member of the archive is stored under the base
\* filename of its manifested path, whichever separator the path uses.
\* Violated: only backslashes are taken as separators; a path written
\* with slashes is stored under its whole text.
C15_AsStated ==
  ~IsNone(zip_archive) =>
    \A i \in 1..Len(Val(zip_archive)) :
      Val(zip_archive)[i].arcname = BaseName(Val(zip_archive)[i].filename)

\* The limit function of a name.
Named(name) == CHOOSE F \in Functions : F.name = name

\* F(f) for a scalar frequency f, as a caller gets it.
ScalarResult(F, f) == Call(F, ArgFloat(f)).y

\* The results of the call are those of the scalar calls at the frequencies
\* fs, in their order.
Elementwise(F, fs, ret) ==
  /\ ~ret.raised
  /\ ret.y.kind = "ndarray"
  /\ Len(ret.y.v) = Len(fs)
  /\ \A i \in 1..Len(fs) : ret.y.v[i] = ScalarResult(F, fs[i])

\* C16 as stated: a call with None returns the samples and the sampling
\* plan, samples[i] being F(plan[i]); a call with an array of N frequencies
\* returns N results, result[i] being F(array[i]), whatever the array mixes.
\* Violated: an array of no frequencies raises, and an array whose first
\* frequency is inside the domain holds nan, not None, for those outside.
C16_AsStated ==
  last.op = "Call" =>
    /\ last.arg.conv = "None" =>
         /\ Elementwise(Named(last.fun), Plan(Target(Named(last.fun))), last.ret)
         /\ last.ret.f = Plan(Target(Named(last.fun)))
    /\ last.arg.conv = "ndarray" =>
         Elementwise(Named(last.fun), last.arg.x, last.ret)

\* The domain of F: the bounds its domain test has; without a test, the ends
\* of its sampling plan.
Domain(F) ==
  IF Target(F).domain # <<>> THEN Target(F).domain
  ELSE <<Plan(Target(F))[1], Plan(Target(F))[Len(Plan(Target(F)))]>>

Outside(F, f) == f < Domain(F)[1] \/ f > Domain(F)[2]

\* The undefined result: None, or the nan a float array keeps in its place.
Undefined(y) == y.kind \in {"None", "nan"}

\* C17 as stated: every limit function, the DC shield impedance too, gives
\* the undefined result and no error at a frequency outside its domain,
\* passed as a scalar or as an element of an array. Violated:
\* Zshield_max_ECU_DC has no domain test and gives its two values at every
\* frequency.
C17_AsStated ==
  last.op = "Call" =>
    /\ (last.arg.conv = "float" /\ Outside(Named(last.fun), last.arg.x[1]))
         => ~last.ret.raised /\ Undefined(last.ret.y)
    /\ (last.arg.conv = "ndarray"
          /\ \E i \in 1..Len(last.arg.x) : Outside(Named(last.fun), last.arg.x[i]))
         => /\ ~last.ret.raised
            /\ \A i \in 1..Len(last.arg.x) :
                 Outside(Named(last.fun), last.arg.x[i])
                   => Undefined(last.ret.y.v[i])

\* Two values, held by the enclosures A and B, are within 1e-3 of each
\* other.
Agree(A, B) ==
  /\ A.kind = "float" /\ B.kind = "float"
  /\ A.v[2] - B.v[1] <= 1000
  /\ B.v[2] - A.v[1] <= 1000

\* The interior breakpoints of F at frequency f: the branches whose bound f
\* is, the last branch has none.
BreakpointsAt(F, f) ==
  {j \in 1..(Len(Target(F).segs) - 1) :
     Target(F).segs[j].bound = f /\ ~OutOfDomain(Target(F), f)}

\* C18: called at an interior breakpoint b, a piecewise limit function gives
\* a value that the expression of the segment below b and the expression of
\* the segment above b both give at b within 1e-3, and the two expressions
\* agree at b within 1e-3.
C18_Continuity ==
  (last.op = "Call" /\ last.arg.conv = "float") =>
    \A j \in BreakpointsAt(Named(last.fun), last.arg.x[1]) :
      /\ ~last.ret.raised
      /\ Agree(last.ret.y, Branch(Target(Named(last.fun)).segs[j], last.arg.x[1]))
      /\ Agree(last.ret.y, Branch(Target(Named(last.fun)).segs[j + 1], last.arg.x[1]))
      /\ Agree(Branch(Target(Named(last.fun)).segs[j], last.arg.x[1]),
               Branch(Target(Named(last.fun)).segs[j + 1], last.arg.x[1]))

\* RLmax_cable called at 40 MHz, where a logarithmic segment meets a
\* constant one.
C18_Witness ==
  /\ last.op = "Call" /\ last.fun = "RLmax_cable"
  /\ last.arg = ArgFloat(400000)
  /\ BreakpointsAt(RLmax_cable, 400000) = {2}
  /\ RLmax_cable.segs[2].form = "log" /\ RLmax_cable.segs[3].form = "const"
  /\ last.ret.y.kind = "float"

\* The aliases of the catalogue and their targets.
AliasPairs ==
  {<<F.name, F.alias>> : F \in {G \in Functions : G.alias # ""}}

\* C19: an alias returns what its target returns for the same argument,
\* None, an array or a scalar; the aliases are LCTLmax_conn of LCLmax_conn,
\* LCTLmax_cable_assy of LCLmax_cable_assy, LCTLmax_WCC of LCLmax_WCC and
\* Atten_c_class2_cable_ES of Atten_c_class1_cable_ES.
C19_Alias ==
  /\ AliasPairs = {<<"LCTLmax_conn", "LCLmax_conn">>,
                   <<"LCTLmax_cable_assy", "LCLmax_cable_assy">>,
                   <<"LCTLmax_WCC", "LCLmax_WCC">>,
                   <<"Atten_c_class2_cable_ES", "Atten_c_class1_cable_ES">>}
  /\ (last.op = "Call" /\ Named(last.fun).alias # "") =>
       last.ret = Call(Named(Named(last.fun).alias), last.arg)

\* LCTLmax_WCC called with an array of a frequency inside its domain, where
\* the target is constant, and one outside.
C19_Witness ==
  /\ last.op = "Call" /\ last.fun = "LCTLmax_WCC"
  /\ last.arg = ArgArray(<<500000, 5000>>)
  /\ ~last.ret.raised
  /\ last.ret.y.v[1] = Float(41000000, 41000000)
  /\ last.ret.y.v[2].kind = "nan"

\* What the call returned is undefined: None, or an array of undefined
\* elements.
AllUndefined(y) ==
  IF y.kind = "ndarray" THEN \A i \in 1..Len(y.v) : Undefined(y.v[i])
  ELSE Undefined(y)

\* C20 as stated: ILmax_cable_assy, which has no limit, returns undefined
\* for every element however it is called, without raising, and a Plot of
\* it with no annotation coordinates completes: it takes one figure number,
\* appends one X and one Y record and no other, and one image path.
\* Violated: called with an array of no frequencies it raises.
C20_AsStated ==
  /\ (last.op = "Call" /\ last.fun = "ILmax_cable_assy")
       => ~last.ret.raised /\ AllUndefined(last.ret.y)
  /\ (last.op = "Plot" /\ last.fun = "ILmax_cable_assy")
       => /\ ~last.raised
          /\ fig_num = last.pre.fig_num + 1
          /\ Len(NewRecords) = 2
          /\ Fields(NewRecords[1])[2] = <<"X">>
          /\ Fields(NewRecords[2])[2] = <<"Y">>
          /\ Len(zip_file_list) = Len(last.pre.zip_file_list) + 1

\* C22: feval given an x that is neither a float nor an ndarray, an int or
\* a list for one, raises without calling the function and returns nothing
\* in its place.
C22_FevalRaises ==
  (last.op = "feval" /\ last.arg.conv \notin {"float", "ndarray"}) =>
    /\ last.ret.raised
    /\ last.raised
    /\ last.evaluations = 0

\* feval given an int, and feval given a list.
C22_Witness ==
  /\ last.op = "feval"
  /\ last.arg.conv \in {"int", "list"}
  /\ last.ret.raised

\* The decade boundaries a display window starts at: 1, 10 and 100 MHz.
Decades == {10000, 100000, 1000000}

\* The frequencies the last Plot sampled its function at.
Sampled == Plan(Target(Named(last.fun)))

\* C24 as stated: a Plot that is not a DC plot and is given no x limits
\* shows [L, 1000], L being the largest of 1, 10 and 100 that does not
\* exceed the smallest sampled frequency, so L is at most that frequency;
\* given x limits, it shows those. Violated: a sampling plan that starts
\* below 1 MHz is shown from 1 MHz.
C24_AsStated ==
  (last.op = "Plot" /\ ~last.is_dc /\ ~IsNone(last.window)) =>
    IF IsNone(last.xlim)
      THEN \E L \in Decades :
             /\ L <= Min(Sampled)
             /\ \A D \in Decades : D <= Min(Sampled) => D <= L
             /\ Val(last.window) = <<2 * L, 2 * 10000000>>
      ELSE Val(last.window) = <<2 * Val(last.xlim)[1], 2 * Val(last.xlim)[2]>>

\* The text s holds the text t.
Holds(s, t) ==
  \E i \in 1..(Len(s) - Len(t) + 1) : SubSeq(s, i, i + Len(t) - 1) = t

\* The values of the X and the Y record the last Plot appended.
XValue == Fields(NewRecords[1])[3]
YValue == Fields(NewRecords[2])[3]

\* C27 as stated: the Y record of a Plot holds the abbreviation and the
\* unit in brackets when both are given, the abbreviation alone when no
\* unit is given, and the LIMIT label when no abbreviation is given; the X
\* record always holds "Frequency [MHz]"; no Y value holds a placeholder
\* for a missing unit. Violated: without abbreviation and unit the Y value
\* is "LIMIT [None]".
C27_AsStated ==
  (last.op = "Plot" /\ Len(NewRecords) >= 2) =>
    /\ XValue = S_Frequency
    /\ (~IsNone(last.abbr) /\ ~IsNone(last.unit))
         => YValue = Val(last.abbr) \o <<" ", "[">> \o Val(last.unit) \o <<"]">>
    /\ (~IsNone(last.abbr) /\ IsNone(last.unit)) => YValue = Val(last.abbr)
    /\ IsNone(last.abbr) => IsPrefix(S_LIMIT, YValue)
    /\ IsNone(last.unit) => ~Holds(YValue, S_None)

\* The last call was a Plot whose image could not be written.
PlotUnsaved == last.op = "Plot" /\ last.unsaved

\* C23: when the image cannot be written, Plot raises and nothing is taken
\* back: the image path is not in the manifest and no image is on disk,
\* while the counter holds the figure number the call took and the key
\* table holds the records the call appended, tagged with that number.
C23_SaveFails ==
  PlotUnsaved =>
    /\ last.raised
    /\ zip_file_list = last.pre.zip_file_list
    /\ saved = last.pre.saved
    /\ fig_num = (IF IsNone(last.fig) THEN last.pre.fig_num + 1
                  ELSE Val(last.fig))
    /\ appendix = last.pre.appendix
    /\ IsPrefix(last.pre.key_table, key_table)
    /\ Len(NewRecords) = 2 + Len(KindsGiven)
    /\ \A r \in 1..Len(NewRecords) :
         LineTag(NewRecords[r]) = FigureId(appendix, fig_num)

\* A Plot with a pass and a fail annotation that could not be saved, in a
\* session that had saved a figure before.
C23_Witness ==
  /\ PlotUnsaved
  /\ Len(NewRecords) = 4
  /\ last.pre.zip_file_list # <<>>
  /\ last.pre.saved # {}

\* The name the log gives the last call.
LastCall == calls[Len(calls)].op

\* C28: every call leaves the key table and the manifest it found as
\* prefixes of the new ones; a completed Plot adds 1 manifest entry and 2
\* to 5 records, AddExternalFile 1 entry and no record, SkipFigure and
\* StartAppendix nothing, Wrapup 1 entry and no record; before Wrapup the
\* manifest is as long as the completed Plot and AddExternalFile calls are
\* many.
C28_AppendOnly ==
  /\ last.op # "init" =>
       /\ IsPrefix(last.pre.key_table, key_table)
       /\ IsPrefix(last.pre.zip_file_list, zip_file_list)
  /\ PlotDone =>
       /\ Len(NewFiles) = 1
       /\ Len(NewRecords) >= 2 /\ Len(NewRecords) <= 5
  /\ last.op = "AddExternal" => Len(NewFiles) = 1 /\ Len(NewRecords) = 0
  /\ last.op \in {"Skip", "StartAppendix"} =>
       Len(NewFiles) = 0 /\ Len(NewRecords) = 0
  /\ (last.op = "Wrapup" /\ LastCall = "Wrapup") =>
       Len(NewFiles) = 1 /\ Len(NewRecords) = 0
  /\ Wrapups = {} =>
       Len(zip_file_list) = Cardinality(PlotCalls) + Cardinality(ExternalCalls)

\* A Plot with pass, fail and better annotations, which adds 5 records,
\* made after an AddExternalFile and a Plot.
C28_Witness ==
  /\ PlotDone
  /\ Len(NewRecords) = 5
  /\ Len(zip_file_list) = 3
  /\ Cardinality(ExternalCalls) = 1

\* The plan is dense: log-spaced samples, after one corner frequency or
\* none.
Dense(plan) ==
  \E k \in 0..1 :
    /\ Len(plan) = DensePoints + k
    /\ SubSeq(plan, k + 1, Len(plan))
         = LogSpace(plan[k + 1], plan[Len(plan)], DensePoints)

\* The breakpoint list of F: f_min, the bounds at which the scalar branch
\* goes over to its next expression, f_max.
BreakpointList(F) ==
  <<Domain(F)[1]>>
  \o [j \in 1..(Len(Target(F).segs) - 1) |-> Target(F).segs[j].bound]
  \o <<Domain(F)[2]>>

Ascending(fs) == \A i \in 1..(Len(fs) - 1) : fs[i] < fs[i + 1]

\* C25 as stated: a limit function whose default sampling plan is not dense
\* is sampled, when called without a frequency, at exactly its breakpoint
\* list: f_min, every interior frequency at which the scalar branch
\* switches expression, f_max, in ascending order. Violated:
\* Atten_c_class1_cable_assy_ES switches expression at 100 MHz and at
\* 400 MHz and is sampled at 30, 100 and 600 MHz.
C25_AsStated ==
  (last.op = "Call" /\ last.arg = ArgNone
     /\ ~Dense(Plan(Target(Named(last.fun))))) =>
    /\ ~last.ret.raised
    /\ Ascending(last.ret.f)
    /\ last.ret.f = BreakpointList(Named(last.fun))

\* The segment of F that holds f: the one after every segment whose upper
\* bound f is beyond.
SegmentOf(F, f) ==
  1 + Cardinality({j \in 1..Len(Target(F).segs) : ~Passes(Target(F).segs[j], f)})

\* C26: a limit function with a domain test gives a defined value at f_min
\* and at f_max, and a scalar frequency inside [f_min, f_max] is evaluated
\* by one segment, the first in ascending breakpoint order whose upper
\* bound test it satisfies: the index of that segment does not decrease
\* with the frequency, and an interior breakpoint is evaluated by the
\* segment below it or by the one above it.
C26_OneSegment ==
  (last.op = "Call" /\ last.arg.conv = "float"
     /\ Target(Named(last.fun)).domain # <<>>
     /\ ~Outside(Named(last.fun), last.arg.x[1])) =>
    /\ ~last.ret.raised /\ ~Undefined(last.ret.y)
    /\ Segment(Target(Named(last.fun)), last.arg.x[1])
         = SegmentOf(Named(last.fun), last.arg.x[1])
    /\ last.ret.y
         = Branch(Target(Named(last.fun)).segs[SegmentOf(Named(last.fun), last.arg.x[1])],
                  last.arg.x[1])
    /\ \A g \in ScalarFreqs :
         (g <= last.arg.x[1] /\ ~Outside(Named(last.fun), g)) =>
           Segment(Target(Named(last.fun)), g)
             <= Segment(Target(Named(last.fun)), last.arg.x[1])
    /\ \A j \in BreakpointsAt(Named(last.fun), last.arg.x[1]) :
         Segment(Target(Named(last.fun)), last.arg.x[1]) \in {j, j + 1}

\* RLmax_cable_assy called at 400 MHz, the bound of the f<400.0 test: the
\* constant segment above it gives the 14 dB.
C26_Witness ==
  /\ last.op = "Call" /\ last.fun = "RLmax_cable_assy"
  /\ last.arg = ArgFloat(4000000)
  /\ BreakpointsAt(RLmax_cable_assy, 4000000) = {2}
  /\ SegmentOf(RLmax_cable_assy, 4000000) = 3
  /\ last.ret.y = Float(14000000, 14000000)

\* The session made its plots with automatic numbering only, skipped by
\* non-negative amounts only, and started no appendix label twice.
AutoOnly == \A i \in 1..Len(calls) : calls[i].op # "PlotFig"
NoNegativeSkip ==
  \A i \in 1..Len(calls) :
    calls[i].op \in {"Skip", "AddExternal"} => calls[i].arg >= 0
NoLabelTwice ==
  \A i \in 1..Len(calls) : \A j \in (i + 1)..Len(calls) :
    (calls[i].op \in StartCalls /\ calls[j].op \in StartCalls)
      => calls[i].app # calls[j].app

\* The appendix segment the i-th call was made in: the number of
\* StartAppendix calls before it.
SegmentIndex(i) ==
  Cardinality({k \in 1..(i - 1) : calls[k].op \in StartCalls})

\* C29: in a session whose Plot calls are all numbered automatically,
\* whose skip amounts are not negative and that starts no appendix label
\* twice, the Plot calls get pairwise distinct figure identifiers and
\* pairwise distinct image paths: within one appendix segment the numbers
\* assigned are strictly increasing, and the plots of different segments
\* differ in the appendix prefix.
C29_DistinctFigures ==
  (AutoOnly /\ NoNegativeSkip /\ NoLabelTwice) =>
    /\ \A i \in PlotCalls : \A j \in PlotCalls :
         i < j =>
           /\ FigId(calls[i].app, calls[i].after)
                # FigId(calls[j].app, calls[j].after)
           /\ SegmentIndex(i) = SegmentIndex(j)
                => calls[i].after < calls[j].after
           /\ SegmentIndex(i) # SegmentIndex(j) => calls[i].app # calls[j].app
    /\ Cardinality(saved) = Cardinality(PlotCalls)

\* A Plot, a StartAppendix and a Plot: both plots are numbered 1, and two
\* images are on disk.
C29_Witness ==
  /\ Len(calls) = 3
  /\ calls[1].op = "Plot" /\ calls[2].op \in StartCalls /\ calls[3].op = "Plot"
  /\ calls[1].after = 1 /\ calls[3].after = 1
  /\ Cardinality(saved) = 2

\* The part of a name that comes before its first underscore.
LeadingPart(name) ==
  LET us == {i \in 1..Len(name) : name[i] = "_"}
  IN  IF us = {} THEN name
      ELSE SubSeq(name, 1, (CHOOSE i \in us : \A j \in us : i <= j) - 1)

\* C30 as stated: in a session of the improved filename style whose output
\* directory ends with its separator, the figure identifier that tags the
\* key-table records a completed Plot appends is the leading part, up to
\* the first underscore, of the base filename of the image the same Plot
\* appends to the manifest. Violated: an appendix label that is a path
\* separator, which StartAppendix accepts and which follows "[" after "Z",
\* is part of the identifier FIG-\.001 and cuts the path in two, so the
\* base filename is .001_<standard_name>_(E)_Ed1<ext>.
C30_AsStated ==
  (PlotDone /\ filename_style = ISO_IMPROVED_STYLE
     /\ fig_dir[Len(fig_dir)] \in {"/", "\\"}) =>
    /\ Len(NewFiles) = 1 /\ Len(NewRecords) >= 2
    /\ \A r \in 1..Len(NewRecords) :
         LineTag(NewRecords[r]) = LeadingPart(BaseName(NewFiles[1]))

\* What an instance holds after the calls of a log made on it alone, from
\* its construction: the calls of a session of two instances are skips,
\* external files x/e, automatic appendices, plots of the same function
\* without annotation or caption, and wrapups.
Fresh ==
  [fig_num |-> 0, appendix |-> None, key_table |-> <<>>,
   zip_file_list |-> <<>>]
Step(s, c) ==
  CASE c.op = "Skip" ->
         [s EXCEPT !.fig_num = skip_figure(s.fig_num, c.arg)]
    [] c.op = "AddExternal" ->
         [s EXCEPT !.fig_num = skip_figure(s.fig_num, c.arg),
                   !.zip_file_list = Append(s.zip_file_list, <<"x", "/", "e">>)]
    [] c.op = "StartAppendix" ->
         [s EXCEPT !.fig_num = 0,
                   !.appendix = start_appendix(s.appendix, None)]
    [] c.op = "Plot" ->
         [s EXCEPT !.fig_num = s.fig_num + 1,
                   !.key_table = PlotRecords(s.key_table, s.appendix,
                                    s.fig_num + 1, VUnit(Abbr_RL, Unit_dB),
                                    None, None, None),
                   !.zip_file_list = Append(s.zip_file_list,
                                       FigFilename(s.appendix, s.fig_num + 1, None))]
    [] c.op = "PlotFig" ->
         [s EXCEPT !.fig_num = c.arg,
                   !.key_table = PlotRecords(s.key_table, s.appendix,
                                    c.arg, VUnit(Abbr_RL, Unit_dB),
                                    None, None, None),
                   !.zip_file_list = Append(s.zip_file_list,
                                       FigFilename(s.appendix, c.arg, None))]
    [] c.op = "Wrapup" ->
         [s EXCEPT !.zip_file_list = Append(s.zip_file_list, KeyFileName)]
    [] OTHER -> s
RECURSIVE Alone(_)
Alone(log) ==
  IF log = <<>> THEN Fresh
  ELSE Step(Alone(SubSeq(log, 1, Len(log) - 1)), log[Len(log)])

\* What an instance holds of the session.
SessionOf(h) ==
  [fig_num |-> h.fig_num, appendix |-> h.appendix,
   key_table |-> h.key_table, zip_file_list |-> h.zip_file_list]

\* The session of the instance the calls are made on.
Current ==
  [fig_num |-> fig_num, appendix |-> appendix, key_table |-> key_table,
   zip_file_list |-> zip_file_list]

\* C21: of two ISO_Plots instances whose calls are interleaved in any way,
\* a call on one leaves the figure counter, the appendix label, the key
\* table and the manifest of the other as they were, and each instance
\* holds what the calls made on it give when they are made alone on a
\* newly constructed instance.
C21_NoLeak ==
  /\ [](/\ Current = Alone(calls)
        /\ SessionOf(peer) = Alone(peer.calls))
  /\ [][peer'.id = peer.id => SessionOf(peer') = SessionOf(peer)]_vars

\* A Plot on one instance, a Plot on the other, a second Plot on the
\* first: the first holds figures 1 and 2, the other its figure 1.
C21_Witness ==
  /\ Len(calls) = 2 /\ Len(peer.calls) = 1
  /\ calls[2].op = "Plot" /\ peer.calls[1].op = "Plot"
  /\ peer.last.pre.saved # {}
  /\ fig_num = 2 /\ peer.fig_num = 1
  /\ Len(key_table) = 4 /\ Len(peer.key_table) = 2
  /\ Len(zip_file_list) = 2 /\ Len(peer.zip_file_list) = 1


====
